---- MODULE Spec2Model ----
(***************************************************************************)
(* USB-PD sink engine for the FUSB302 transceiver (src/src/pd/mod.rs),     *)
(* its message codec (src/src/pd/proto.rs), the FIFO framing               *)
(* (src/src/pd/fusb302.rs) and the shared I2C bus lock used by the engine, *)
(* the BQ25620 charger monitor and the debug web handlers.                 *)
(*                                                                         *)
(* The specifications share the variables:                                 *)
(*   Spec         the engine loop handle_pd/Pd::tick, one action per       *)
(*                stretch of a handler between two suspension points, bus  *)
(*                failures chosen by the environment;                      *)
(*   SpecLive     the same loop in a well-behaved environment, with fair   *)
(*                scheduling;                                              *)
(*   SpecSession  the same loop joined with the charger monitor;           *)
(*   SpecFraming  Pd::handle_new_data over queued frames;                  *)
(*   SpecSelect,  Pd::handle_source_capabilities applied to capabilities   *)
(*   SpecRequest  payloads over a small alphabet of offers;                *)
(*   SpecBuffer   Fusb302MessageBuffer under write_header, write_data and  *)
(*                send;                                                    *)
(*   SpecCodec,   the bit-field types and the derived offer values of      *)
(*   SpecPower    proto.rs;                                                *)
(*   SpecBus      the tasks that share the bus mutex, one action per lock  *)
(*                acquisition, bus transaction and release.                *)
(***************************************************************************)
EXTENDS Integers, Sequences, FiniteSets, TLC

VARIABLES
    state,       \* Pd.state
    status,      \* Pd.status: the 7 bytes of the last status burst read
    pdos,        \* Pd.pdos: 7 raw FixedSupplyPdo words
    num_pdos,    \* Pd.num_pdos
    message_id,  \* Pd.message_id
    pc,          \* where the engine task is suspended
    ret,         \* the caller poll_status returns to
    retries,     \* fusb_setup's local retry counter
    rxfifo,      \* bytes waiting in the chip's receive FIFO
    result,      \* what tick() returned ("run" while it has not returned)
    failure,     \* the error a per-tick operation raised in the current tick
    tickOf,      \* the protocol state the current tick was dispatched on
    polled,      \* the current tick has read a status snapshot
    buslog,      \* bus operations the engine issued in its last step
    tx,          \* the Request built by the last step, and how far send got
    lastTxId,    \* message ID of the last Request fully written to the bus
    faults,      \* bus errors the engine has met so far
    rxmsg,       \* messages handle_new_data handed to handle_message in the last step
    txfifo,      \* writes held by the chip's transmit FIFO, not yet transmitted
    codec,       \* SpecCodec: the bit-field value under test
    payload,     \* SpecSelect: the capabilities payload under test
    holder,      \* task owning the bus mutex guard
    tpc,         \* SpecBus: each task's position
    top,         \* SpecBus: each task's current bus helper
    txns,        \* bus transactions issued under the current guard
    lastAcq,     \* summary of the acquisition that was released last
    bqstep,      \* SpecBus: charger monitor's position in init/tick
    unlocked     \* a bus transaction was issued by a task not owning the guard

vars == <<state, status, pdos, num_pdos, message_id, pc, ret, retries, rxfifo,
          result, failure, tickOf, polled, buslog, tx, lastTxId, faults,
          rxmsg, txfifo, codec, payload, holder, tpc, top, txns, lastAcq, bqstep, unlocked>>

engineVars == <<state, status, pdos, num_pdos, message_id, pc, ret, retries,
                rxfifo, result, failure, tickOf, polled, buslog, tx, lastTxId,
                faults, rxmsg, txfifo>>

busVars == <<holder, tpc, top, txns, lastAcq, bqstep, unlocked>>

----------------------------------------------------------------------------
(* Bit fields (bitfield_struct): a field of `width` bits at bit `lo`.      *)

Pow2(n) == 2 ^ n

GetBits(raw, lo, width) == (raw \div Pow2(lo)) % Pow2(width)

\* with_x(v): the field is replaced by v masked to its width, the other
\* bits are kept.
SetBitsNoClear(raw, lo, width, v) == raw + (v % Pow2(width)) * Pow2(lo)
SetBits(raw, lo, width, v) ==
    raw - GetBits(raw, lo, width) * Pow2(lo) + (v % Pow2(width)) * Pow2(lo)

\* u16::from_le_bytes / u32::from_le_bytes and to_le_bytes
FromLeBytes(b) ==
    LET RECURSIVE Sum(_)
        Sum(i) == IF i > Len(b) THEN 0 ELSE b[i] * Pow2(8 * (i - 1)) + Sum(i + 1)
    IN Sum(1)

ToLeBytes(v, n) == [i \in 1..n |-> (v \div Pow2(8 * (i - 1))) % 256]

----------------------------------------------------------------------------
(* proto.rs: Header (u16)                                                  *)

Header_message_type(h) == GetBits(h, 0, 5)
Header_data_rate(h) == GetBits(h, 5, 1)
Header_spec_revision(h) == GetBits(h, 6, 2)
Header_port_power_role(h) == GetBits(h, 8, 1)
Header_message_id(h) == GetBits(h, 9, 3)
Header_num_data_objects(h) == GetBits(h, 12, 3)
Header_extended(h) == GetBits(h, 15, 1)

DataMessageType_SourceCapabilities == 1
DataMessageType_Request == 2

\* DataMessageType::from_u8: the discriminants of the enum
DataMessageTypes == {1, 2, 3, 4, 5, 6, 7, 8, 9, 18, 11, 12, 15}

\* Header::new().with_message_type(Request).with_spec_revision(2)
\*     .with_message_id(id).with_num_data_objects(1)
RequestHeaderNextId(id) ==
    SetBits(SetBits(SetBits(SetBits(0, 0, 5, DataMessageType_Request),
                            6, 2, 2), 9, 3, (id + 1) % 8), 12, 3, 1)
RequestHeader(id) ==
    SetBits(SetBits(SetBits(SetBits(0, 0, 5, DataMessageType_Request),
                            6, 2, 2), 9, 3, id), 12, 3, 1)

(* proto.rs: FixedSupplyPdo (u32)                                          *)
Pdo_raw_max_current(p) == GetBits(p, 0, 10)
Pdo_raw_voltage(p) == GetBits(p, 10, 10)

max_current(p) == Pdo_raw_max_current(p) * 10
voltage(p) == Pdo_raw_voltage(p) * 50

\* A u32 as two 16-bit halves. The product of two u32 values below 2^16,
\* from their 8-bit limbs: hi and lo are the halves of the wrapped result,
\* overflow tells that bits were lost above bit 31.
U32MulNarrow(a, b) ==
    [hi |-> 0, lo |-> (a * b) % 65536, overflow |-> a * b >= 65536]
U32Mul(a, b) ==
    LET a0 == a % 256
        a1 == (a \div 256) % 256
        b0 == b % 256
        b1 == (b \div 256) % 256
        low == a0 * b0 + ((a1 * b0 + a0 * b1) % 256) * 256
        high == a1 * b1 + (a1 * b0 + a0 * b1) \div 256 + low \div 65536
    IN [hi |-> high % 65536, lo |-> low % 65536, overflow |-> high >= 65536]

\* The quotient of a u32 in halves by a divisor below 2^15
U32Div(x, d) == (x.hi \div d) * 65536 + ((x.hi % d) * 65536 + x.lo) \div d

\* voltage() * max_current() / 1000 in u32
power(p) == U32Div(U32Mul(voltage(p), max_current(p)), 1000)

(* proto.rs: FixedVariableSupplyRequest (u32)                              *)
Req_raw_min_operating_current(r) == GetBits(r, 0, 10)
Req_raw_operating_current(r) == GetBits(r, 10, 10)
Req_no_usb_suspend(r) == GetBits(r, 24, 1)
Req_object_position(r) == GetBits(r, 28, 4)

with_min_operating_current(r, val) == SetBits(r, 0, 10, (val \div 10) % 65536)
with_operating_current(r, val) == SetBits(r, 10, 10, (val \div 10) % 65536)

----------------------------------------------------------------------------
(* fusb302.rs: Fusb302MessageBuffer                                        *)

Fusb302Register_Fifos == 67
MESSAGE_BUFFER_SIZE == 31
MAX_PDOS == 7

TxToken_Sop1 == 18
TxToken_Sop2 == 19
TxToken_Eop == 20
TxToken_PackSym == 128
TxToken_TxOn == 161
TxToken_TxOff == 254
TxToken_JamCrc == 255

\* Fusb302MessageBuffer::new()
MessageBufferNew ==
    [buffer |-> [i \in 0..(MESSAGE_BUFFER_SIZE - 1) |->
                    IF i = 0 THEN Fusb302Register_Fifos ELSE 0],
     len |-> 3]

\* Fusb302MessageBuffer::write_header
write_header(m, h) ==
    [m EXCEPT !.buffer = [m.buffer EXCEPT ![1] = ToLeBytes(h, 2)[1],
                                          ![2] = ToLeBytes(h, 2)[2]]]

\* Fusb302MessageBuffer::write_data: [ok, msg]
write_dataOffByOne(m, object) ==
    IF m.len + 4 >= MESSAGE_BUFFER_SIZE
    THEN [ok |-> FALSE, msg |-> m]
    ELSE [ok |-> TRUE,
          msg |-> [buffer |-> [i \in 0..(MESSAGE_BUFFER_SIZE - 1) |->
                                  IF i >= m.len /\ i < m.len + 4
                                  THEN ToLeBytes(object, 4)[i - m.len + 1]
                                  ELSE m.buffer[i]],
                   len |-> m.len + 4]]
write_data(m, object) ==
    IF m.len + 4 > MESSAGE_BUFFER_SIZE
    THEN [ok |-> FALSE, msg |-> m]
    ELSE [ok |-> TRUE,
          msg |-> [buffer |-> [i \in 0..(MESSAGE_BUFFER_SIZE - 1) |->
                                  IF i >= m.len /\ i < m.len + 4
                                  THEN ToLeBytes(object, 4)[i - m.len + 1]
                                  ELSE m.buffer[i]],
                   len |-> m.len + 4]]

\* The three byte strings Fusb302MessageBuffer::send writes, in order.
SopSeqFullLen(m) ==
    <<Fusb302Register_Fifos, TxToken_Sop1, TxToken_Sop1, TxToken_Sop1,
      TxToken_Sop2, (TxToken_PackSym + (m.len % 256)) % 256>>
SopSeq(m) ==
    <<Fusb302Register_Fifos, TxToken_Sop1, TxToken_Sop1, TxToken_Sop1,
      TxToken_Sop2, (TxToken_PackSym + ((m.len - 1) % 256)) % 256>>

MsgBytes(m) == [i \in 1..m.len |-> m.buffer[i - 1]]

EopSeq ==
    <<Fusb302Register_Fifos, TxToken_JamCrc, TxToken_Eop, TxToken_TxOff,
      TxToken_TxOn>>

SendWrites(m) == <<SopSeq(m), MsgBytes(m), EopSeq>>

----------------------------------------------------------------------------
(* mod.rs: Pd::handle_source_capabilities, the pure part                   *)

\* payload.array_chunks::<4>().map(from_le_bytes).fold(...): offer k is
\* written to pdos[k]; the entries past the last chunk keep their old value.
DecodePdos(bytes, old) ==
    [pdos |-> [k \in 0..(MAX_PDOS - 1) |->
                  IF k < Len(bytes) \div 4
                  THEN FromLeBytes(SubSeq(bytes, 4 * k + 1, 4 * k + 4))
                  ELSE old[k]],
     num_pdos |-> Len(bytes) \div 4]

VOLTAGE_LIMIT == 18000

\* the fold's test: (pdo.voltage() <= 18000) && (pdo_power > power)
Qualifies(pdo) == voltage(pdo) <= VOLTAGE_LIMIT

BeatsOrTies(pdo_power, best) == pdo_power >= best
Beats(pdo_power, best) == pdo_power > best

\* self.pdos[..num_pdos].iter().enumerate().fold((0, 0), ...)
RECURSIVE SelectFold(_, _, _, _, _)
SelectFold(p, n, index, selected_pdo, best) ==
    IF index >= n THEN [selected_pdo |-> selected_pdo, power |-> best]
    ELSE IF Qualifies(p[index]) /\ Beats(power(p[index]), best)
         THEN SelectFold(p, n, index + 1, index, power(p[index]))
         ELSE SelectFold(p, n, index + 1, selected_pdo, best)

SelectPdoAll(p, n) == SelectFold(p, MAX_PDOS, 0, 0, 0)
SelectPdo(p, n) == SelectFold(p, n, 0, 0, 0)

\* FixedVariableSupplyRequest::new().with_min_operating_current(..)
\*     .with_operating_current(..).with_no_usb_suspend(true)
\*     .with_object_position((selected_pdo + 1) as u8)
BuildRequestNoMin(p, selected_pdo) ==
    SetBits(SetBits(with_operating_current(0, max_current(p[selected_pdo])),
                    24, 1, 1),
            28, 4, (selected_pdo + 1) % 256)
BuildRequestZeroBased(p, selected_pdo) ==
    SetBits(SetBits(with_operating_current(
                        with_min_operating_current(0, max_current(p[selected_pdo])),
                        max_current(p[selected_pdo])),
                    24, 1, 1),
            28, 4, selected_pdo % 256)
BuildRequest(p, selected_pdo) ==
    SetBits(SetBits(with_operating_current(
                        with_min_operating_current(0, max_current(p[selected_pdo])),
                        max_current(p[selected_pdo])),
                    24, 1, 1),
            28, 4, (selected_pdo + 1) % 256)

\* self.message_id = (self.message_id + 1) & 0b111
NextMessageIdNoWrap(id) == id + 1
NextMessageId(id) == (id + 1) % 8

\* Everything handle_source_capabilities computes before msg.send():
\* the new offer list and count, the selection, the message buffer and the
\* advanced message ID. ok is write_data's result.
PrepareRequest(bytes, old, id) ==
    LET d == DecodePdos(bytes, old)
        s == SelectPdo(d.pdos, d.num_pdos)
        w == write_data(write_header(MessageBufferNew, RequestHeader(id)),
                        BuildRequest(d.pdos, s.selected_pdo))
    IN [pdos |-> d.pdos, num_pdos |-> d.num_pdos,
        selected_pdo |-> s.selected_pdo, power |-> s.power,
        message_id |-> NextMessageId(id), ok |-> w.ok, msg |-> w.msg]

----------------------------------------------------------------------------
(* Values shared by the specifications                                     *)

PdStates == {"Reset", "WaitForVbus", "PollCC", "Online"}

\* Pd::new(): pdos: [FixedSupplyPdo::new(); 7]
NoPdos == [k \in 0..(MAX_PDOS - 1) |-> 0]

\* Status::default(): all seven registers zero
DefaultStatus == <<0, 0, 0, 0, 0, 0, 0>>

NoTx == [built |-> FALSE, msg |-> MessageBufferNew, writes |-> 0]
NoAcq == [task |-> "none", op |-> "none", txns |-> 0, ok |-> TRUE]
NoCodec == [type |-> "none", op |-> "none", raw |-> 0, fields |-> <<>>,
            raw2 |-> 0, fields2 |-> <<>>]

\* msg.send(): the writes are issued in order and the first failing one
\* returns the error; `fail` is the index of the failing write, 0 for none.
\* The number of writes that reached the chip:
SendCompleted(fail) == IF fail = 0 THEN 3 ELSE fail - 1

\* A Request is on the wire once the EOP sequence (with TxOn) is written.
Transmitted(t) == t.built /\ t.writes = 3

\* Pd::new()
InitPd ==
    /\ state = "Reset"
    /\ status = DefaultStatus
    /\ pdos = NoPdos
    /\ num_pdos = 0
    /\ message_id = 0
    /\ ret = "none"
    /\ retries = 0
    /\ rxfifo = <<>>
    /\ result = "none"
    /\ failure = "none"
    /\ tickOf = "none"
    /\ polled = FALSE
    /\ buslog = <<>>
    /\ tx = NoTx
    /\ lastTxId = -1
    /\ faults = 0
    /\ rxmsg = <<>>
    /\ txfifo = <<>>

\* main.rs spawns pd::task (handle_pd joined with handle_bq) and web tasks
WebTasks == {"web1", "web2"}
Tasks == {"pd", "bq"} \cup WebTasks

InitBus ==
    /\ holder = "none"
    /\ tpc = [t \in Tasks |-> "idle"]
    /\ top = [t \in Tasks |-> "none"]
    /\ txns = 0
    /\ lastAcq = NoAcq
    /\ bqstep = "init"
    /\ unlocked = FALSE

\* No bit-field value is under test
InitCodec == codec = NoCodec

----------------------------------------------------------------------------
(* Offers the modelled source advertises                                   *)

\* A fixed-supply offer word: raw current in bits 0..9, raw voltage in 10..19
Offer(raw_voltage, raw_current) == raw_current + raw_voltage * 1024

Offer5V3A == Offer(100, 300)
Offer9V2A == Offer(180, 200)
Offer18V1A == Offer(360, 100)
Offer20V1A == Offer(400, 100)
Offer5V0A == Offer(100, 0)

\* Offer k of a received list: (5 + k) V, 1 A
FramedOffers(n) == [k \in 1..n |-> Offer(100 + 20 * k, 100)]

OfferAlphabet == {Offer5V3A, Offer9V2A, Offer18V1A, Offer20V1A, Offer5V0A}

RECURSIVE EncodeOffers(_)
EncodeOffers(list) ==
    IF list = <<>> THEN <<>>
    ELSE ToLeBytes(Head(list), 4) \o EncodeOffers(Tail(list))

----------------------------------------------------------------------------
(* fusb302.rs: the registers the engine reads and writes                   *)

\* Status fields used by the engine, from the 7 bytes of fusb302_read_status
\* (status_0a, status_1a, interrupt_a, interrupt_b, status_0, status_1,
\* interrupt)
i_txsent(s) == GetBits(s[3], 2, 1) = 1
i_retryfail(s) == GetBits(s[3], 4, 1) = 1
i_ocp_temp(s) == GetBits(s[3], 7, 1) = 1
i_gcrcsent(s) == GetBits(s[4], 0, 1) = 1
vbusok(s) == GetBits(s[5], 7, 1) = 1
overtemp(s) == GetBits(s[6], 1, 1) = 1

\* Status0.bc_lvl and Status1.rx_empty of a single register read
bc_lvl(v) == GetBits(v, 0, 2)
rx_emptyWrongBit(v) == GetBits(v, 4, 1) = 1
rx_empty(v) == GetBits(v, 5, 1) = 1

\* RxToken: 5 reserved bits, then the 3-bit token; RxTokenType::Sop = 0b111
RxToken_tokenLow(b) == GetBits(b, 0, 3) % 8
RxToken_token(b) == GetBits(b, 5, 3) % 8
RxTokenType_Sop == 7

\* Register values built with the bitfield setters
Reset_sw_res == SetBits(0, 0, 1, 1)
Reset_pd_reset == SetBits(0, 1, 1, 1)
Control1_rx_flush == SetBits(0, 2, 1, 1)
Control0_tx_flush == SetBits(SetBits(0, 2, 2, 1), 6, 1, 1)
Control0_host_cur3 == SetBits(0, 2, 2, 3)
Control3_auto_retry == SetBits(SetBits(0, 0, 1, 1), 1, 2, 3)
Power_all == SetBits(SetBits(SetBits(SetBits(0, 0, 1, 1), 1, 1, 1), 2, 1, 1), 3, 1, 1)
Measure_default == SetBits(0, 0, 6, 49)
Measure_vbus == SetBits(SetBits(0, 6, 1, 1), 0, 6, 0)
Bool(b) == IF b THEN 1 ELSE 0
Switches0_meas(cc1, cc2) ==
    SetBits(SetBits(SetBits(SetBits(0, 0, 1, 1), 1, 1, 1), 2, 1, Bool(cc1)),
            3, 1, Bool(cc2))
Switches1_tx(cc1, cc2) ==
    SetBits(SetBits(SetBits(SetBits(0, 0, 1, Bool(cc1)), 1, 1, Bool(cc2)),
                    2, 1, 1), 5, 2, 0)

\* One bus operation as the engine issues it
\* (val: the bytes written after the register address; len: bytes moved)
WriteBytes(reg, bytes) ==
    [op |-> "write", reg |-> reg, val |-> bytes, len |-> Len(bytes), ok |-> TRUE]
W(reg, v) == WriteBytes(reg, <<v>>)
R(reg, len) == [op |-> "read", reg |-> reg, val |-> <<>>, len |-> len, ok |-> TRUE]

\* A one-byte register read that returned byte v
Rv(reg, v) == [op |-> "read", reg |-> reg, val |-> <<v>>, len |-> 1, ok |-> TRUE]

\* The operations of `ops` that are issued when the fail-th one returns a
\* bus error (0: none fails): every `?` returns at the first error.
Issued(ops, fail) ==
    IF fail = 0 \/ fail > Len(ops) THEN ops
    ELSE [i \in 1..fail |->
             IF i = fail
             THEN [ops[i] EXCEPT !.ok = FALSE,
                                 !.val = IF ops[i].op = "read" THEN <<>> ELSE @]
             ELSE ops[i]]

AllOk(ops, fail) == fail = 0 \/ fail > Len(ops)

\* The last operation of a step's log returned a bus error
Faulted(log) == log # <<>> /\ ~log[Len(log)].ok

\* Bus errors the environment injects in one run of the engine
MaxFaults == 1

\* The chip's transmit FIFO after one bus operation: a write that returned
\* an error leaves it as it was; Control0.tx_flush and Reset.sw_res empty
\* it; a write to the FIFO register is appended, and when it ends with the
\* TxOn token the chip transmits what the FIFO holds.
TxFifoStep(fifo, o) ==
    IF ~o.ok \/ o.op # "write" THEN fifo
    ELSE IF o.reg = "Control0" /\ GetBits(o.val[1], 6, 1) = 1 THEN <<>>
    ELSE IF o.reg = "Reset" /\ GetBits(o.val[1], 0, 1) = 1 THEN <<>>
    ELSE IF o.reg # "Fifos" THEN fifo
    ELSE IF o.val[Len(o.val)] = TxToken_TxOn THEN <<>>
    ELSE Append(fifo, o.val)

\* ... after the operations of a step, in the order they were issued
RECURSIVE TxFifoAfter(_, _)
TxFifoAfter(fifo, log) ==
    IF log = <<>> THEN fifo
    ELSE TxFifoAfter(TxFifoStep(fifo, Head(log)), Tail(log))

\* fusb_setup after the identity check
SetupWritesMasksLast ==
    <<W("Power", Power_all), W("Control0", Control0_host_cur3),
      W("Control3", Control3_auto_retry), W("Control2", 0),
      W("Control1", Control1_rx_flush),
      W("Mask1", 0), W("MaskA", 0), W("MaskB", 0)>>
SetupWrites ==
    <<W("Power", Power_all), W("Mask1", 0), W("MaskA", 0), W("MaskB", 0),
      W("Control0", Control0_host_cur3), W("Control3", Control3_auto_retry),
      W("Control2", 0), W("Control1", Control1_rx_flush)>>

\* handle_wait_for_vbus_state before its loop
WaitForVbusWrites ==
    <<W("Measure", Measure_vbus), W("Switches0", Switches0_meas(FALSE, FALSE))>>

\* detect_cc_line up to the comparison of the two readings
DetectSampleOps ==
    <<W("Measure", Measure_default), W("Switches0", Switches0_meas(TRUE, FALSE)),
      R("Status0", 1), W("Switches0", Switches0_meas(FALSE, TRUE)),
      R("Status0", 1)>>

\* detect_cc_line after the comparison
DetectConfigOpsSwapped(cc1_val, cc2_val) ==
    <<W("Switches0", Switches0_meas(cc1_val > cc2_val, cc2_val > cc1_val)),
      W("Control1", Control1_rx_flush),
      W("Switches1", Switches1_tx(cc2_val > cc1_val, cc1_val > cc2_val))>>
DetectConfigOpsFlushLast(cc1_val, cc2_val) ==
    <<W("Switches0", Switches0_meas(cc1_val > cc2_val, cc2_val > cc1_val)),
      W("Switches1", Switches1_tx(cc1_val > cc2_val, cc2_val > cc1_val)),
      W("Control1", Control1_rx_flush)>>
DetectConfigOps(cc1_val, cc2_val) ==
    <<W("Switches0", Switches0_meas(cc1_val > cc2_val, cc2_val > cc1_val)),
      W("Control1", Control1_rx_flush),
      W("Switches1", Switches1_tx(cc1_val > cc2_val, cc2_val > cc1_val))>>

\* fusb_reset
FusbResetOpsReordered ==
    <<W("Reset", Reset_pd_reset), W("Control0", Control0_tx_flush),
      W("Control1", Control1_rx_flush)>>
FusbResetOps ==
    <<W("Control0", Control0_tx_flush), W("Control1", Control1_rx_flush),
      W("Reset", Reset_pd_reset)>>

----------------------------------------------------------------------------
(* Environment of the engine: what the chip returns                        *)

\* fusb_read_id: the bus read fails, or returns one of these identity bytes
\* (-1 stands for the bus error)
IdReads == {-1, 0, 255, 145}

\* fusb_read_id returns Ok
ValidIdNonZero(r) == r # -1 /\ r # 0
ValidId(r) == r # -1 /\ r # 0 /\ r # 255

\* Status bursts: interrupt_b carries the good-CRC-sent bit, status_0 the
\* VBUS-ok bit; three more bursts carry the conditions that are only logged
\* (i_txsent; i_retryfail with i_ocp_temp; Status1.overtemp).
Snapshots ==
    {<<0, 0, 0, b, v, 0, 0>> : b \in {0, 1}, v \in {0, 128}}
    \cup {<<0, 0, 4, 0, 128, 0, 0>>, <<0, 0, 144, 0, 128, 0, 0>>,
          <<0, 0, 0, 0, 128, 2, 0>>}

\* Received frames as the chip queues them: token, header, payload, CRC
Frame(token, header, body) ==
    <<token>> \o ToLeBytes(header, 2) \o body \o <<170, 187, 204, 221>>

\* A source header: message type, object count, spec revision 1
PeerHeader(type, n) == SetBits(SetBits(SetBits(0, 0, 5, type), 6, 2, 1), 12, 3, n)

CapsFrame(list) ==
    Frame(224, PeerHeader(DataMessageType_SourceCapabilities, Len(list)),
          EncodeOffers(list))

\* What may have arrived when the chip raises good-CRC-sent: nothing, a
\* capabilities message, a control message (Accept) behind a non-SOP token,
\* another data message (SinkCapabilities)
Arrivals ==
    {<<>>,
     CapsFrame(<<Offer5V3A, Offer9V2A, Offer20V1A>>),
     <<192>> \o Frame(224, PeerHeader(3, 0), <<>>),
     Frame(224, PeerHeader(4, 1), ToLeBytes(Offer5V3A, 4))}

\* The modelled source sends its next frame once the FIFO has been emptied
Arrive(fifo, frame) == IF fifo = <<>> THEN frame ELSE fifo

\* A read of k bytes from the FIFO register; a short FIFO reads as zeros
FifoData(fifo, k) == [i \in 1..k |-> IF i <= Len(fifo) THEN fifo[i] ELSE 0]
FifoRest(fifo, k) == IF k >= Len(fifo) THEN <<>> ELSE SubSeq(fifo, k + 1, Len(fifo))

----------------------------------------------------------------------------
(* mod.rs: the engine                                                      *)

\* handle_reset_state: `if self.fusb_setup().await.is_ok() {..}; Ok(())`
ResetFailureResult == "Ok"

\* handle_poll_cc_state: `if self.detect_cc_line().await.is_ok() {..}; Ok(())`
DetectFailureResult == "Ok"

\* handle_reset_state: the state moves on only when fusb_setup returned Ok
AfterSetupAlways(ok, st) == "WaitForVbus"
AfterSetup(ok, st) == IF ok THEN "WaitForVbus" ELSE st

\* handle_online_state: `if !vbusok { self.state = PdState::Reset }`
AfterVbusLossToPollCC == "PollCC"
AfterVbusLoss == "Reset"

\* handle_wait_for_vbus_state: `self.state = PdState::PollCC`
AfterVbusDetectedStays == "WaitForVbus"
AfterVbusDetected == "PollCC"

AfterPollNoCheck(caller, snap, st) ==
    CASE caller = "wfv_check" ->
            [state |-> "PollCC", pc |-> "done", ret |-> "none", result |-> "Ok"]
      [] caller = "wfv_int" ->
            [state |-> st, pc |-> "poll", ret |-> "wfv_check", result |-> "run"]
      [] OTHER ->
            [state |-> IF GetBits(snap[5], 7, 1) = 1 THEN st ELSE "Reset",
             pc |-> "done", ret |-> "none", result |-> "Ok"]

\* What runs after poll_status returned Ok, by caller:
\*   wfv_check  the loop of handle_wait_for_vbus_state after its own poll
\*   wfv_int    wait_for_interrupt called from that loop
\*   online     wait_for_interrupt called from handle_online_state
AfterPoll(caller, snap, st) ==
    CASE caller = "wfv_check" ->
            IF vbusok(snap)
            THEN [state |-> AfterVbusDetected, pc |-> "done", ret |-> "none",
                  result |-> "Ok"]
            ELSE [state |-> st, pc |-> "wait_int", ret |-> "wfv_int",
                  result |-> "run"]
      [] caller = "wfv_int" ->
            [state |-> st, pc |-> "poll", ret |-> "wfv_check", result |-> "run"]
      [] OTHER ->
            [state |-> IF vbusok(snap) THEN st ELSE AfterVbusLoss,
             pc |-> "done", ret |-> "none", result |-> "Ok"]

\* One step of the engine task: every engine variable's next value.
EngineStep(n) ==
    /\ state' = n.state
    /\ status' = n.status
    /\ pdos' = n.pdos
    /\ num_pdos' = n.num_pdos
    /\ message_id' = n.message_id
    /\ pc' = n.pc
    /\ ret' = n.ret
    /\ retries' = n.retries
    /\ rxfifo' = n.rxfifo
    /\ result' = n.result
    /\ failure' = n.failure
    /\ tickOf' = n.tickOf
    /\ polled' = n.polled
    /\ buslog' = n.buslog
    /\ tx' = n.tx
    /\ lastTxId' = IF Transmitted(n.tx)
                   THEN Header_message_id(FromLeBytes(<<n.tx.msg.buffer[1],
                                                        n.tx.msg.buffer[2]>>))
                   ELSE lastTxId
    /\ Faulted(n.buslog) => faults < MaxFaults
    /\ faults' = faults + Bool(Faulted(n.buslog))
    /\ rxmsg' = n.rxmsg
    /\ txfifo' = TxFifoAfter(txfifo, n.buslog)
    /\ UNCHANGED <<payload, codec>>
    /\ UNCHANGED busVars

\* The engine's variables as they are, for EXCEPT
Now ==
    [state |-> state, status |-> status, pdos |-> pdos, num_pdos |-> num_pdos,
     message_id |-> message_id, pc |-> pc, ret |-> ret, retries |-> retries,
     rxfifo |-> rxfifo, result |-> result, failure |-> failure,
     tickOf |-> tickOf, polled |-> polled, buslog |-> <<>>, tx |-> NoTx,
     rxmsg |-> <<>>]

\* handle_pd calls tick(): the fields a new tick starts with
TickStartNewSession ==
    [Now EXCEPT !.tickOf = state, !.polled = FALSE, !.failure = "none",
                !.result = "run",
                !.message_id = IF state = "Reset" THEN 0 ELSE message_id,
                !.num_pdos = IF state = "Reset" THEN 0 ELSE num_pdos,
                !.pdos = IF state = "Reset" THEN NoPdos ELSE pdos]
TickStart ==
    [Now EXCEPT !.tickOf = state, !.polled = FALSE, !.failure = "none",
                !.result = "run"]

\* tick() returns r, having raised failure f
TickEndResetting(n, r, f) ==
    [n EXCEPT !.pc = "done", !.ret = "none", !.result = r, !.failure = f,
              !.state = IF r = "Err" THEN "Reset" ELSE n.state]
TickEnd(n, r, f) == [n EXCEPT !.pc = "done", !.ret = "none", !.result = r, !.failure = f]

\* handle_pd: `loop { if let Err(e) = pd.tick().await { println!(..) } }`:
\* the result is printed or dropped and the next tick is dispatched.
PdLoop ==
    /\ pc = "done"
    /\ EngineStep([Now EXCEPT !.pc = "tick", !.result = "none", !.failure = "none",
                              !.tickOf = "none", !.polled = FALSE])

\* Reset: fusb_setup's soft-reset write
ResetStart ==
    /\ pc = "tick" /\ state = "Reset"
    /\ \E fail \in 0..1 :
         LET ops == Issued(<<W("Reset", Reset_sw_res)>>, fail)
             n == [TickStart EXCEPT !.buslog = ops]
         IN IF fail = 0
            THEN EngineStep([n EXCEPT !.pc = "setup_id", !.retries = 5,
                                      !.rxfifo = <<>>])
            ELSE EngineStep(TickEnd([n EXCEPT !.state = AfterSetup(FALSE, state)],
                                    ResetFailureResult, "I2cError"))

\* Reset: one pass of fusb_setup's identity loop
SetupReadId ==
    /\ pc = "setup_id"
    /\ \E r \in IdReads :
         LET ops == IF r = -1 THEN Issued(<<R("DeviceId", 1)>>, 1)
                    ELSE <<Rv("DeviceId", r)>>
             n == [Now EXCEPT !.buslog = ops]
         IN IF ValidId(r)
            THEN EngineStep([n EXCEPT !.pc = "setup_cfg"])
            ELSE IF retries - 1 = 0
                 THEN EngineStep(TickEnd([n EXCEPT !.retries = 0,
                                                   !.state = AfterSetup(FALSE, state)],
                                         ResetFailureResult, "SoftResetFailure"))
                 ELSE EngineStep([n EXCEPT !.retries = retries - 1])

\* Reset: the rest of fusb_setup, and handle_reset_state's transition
SetupConfig ==
    /\ pc = "setup_cfg"
    /\ \E fail \in 0..Len(SetupWrites) :
         LET n == [Now EXCEPT !.buslog = Issued(SetupWrites, fail)]
         IN IF fail = 0
            THEN EngineStep(TickEnd([n EXCEPT !.state = AfterSetup(TRUE, state),
                                              !.rxfifo = <<>>], "Ok", "none"))
            ELSE EngineStep(TickEnd([n EXCEPT !.state = AfterSetup(FALSE, state)],
                                    ResetFailureResult, "I2cError"))

\* WaitForVbus: the two writes before the loop
WaitForVbusStart ==
    /\ pc = "tick" /\ state = "WaitForVbus"
    /\ \E fail \in 0..Len(WaitForVbusWrites) :
         LET n == [TickStart EXCEPT !.buslog = Issued(WaitForVbusWrites, fail)]
         IN IF fail = 0
            THEN EngineStep([n EXCEPT !.pc = "poll", !.ret = "wfv_check"])
            ELSE EngineStep(TickEnd(n, "Err", "I2cError"))

\* Online: handle_online_state reaches wait_for_interrupt
OnlineTick ==
    /\ pc = "tick" /\ state = "Online"
    /\ EngineStep([TickStart EXCEPT !.pc = "wait_int", !.ret = "online"])

\* wait_for_interrupt: pd_int_n.wait_for_low() completes
WaitInterruptNoPoll ==
    /\ pc = "wait_int"
    /\ LET c == AfterPoll(ret, status, state)
       IN EngineStep([Now EXCEPT !.state = c.state, !.pc = c.pc, !.ret = c.ret,
                                 !.result = c.result])
WaitInterrupt ==
    /\ pc = "wait_int"
    /\ EngineStep([Now EXCEPT !.pc = "poll"])

\* handle_tx_sent, handle_retry_fail and handle_over_temp print and return
\* Ok(()): the engine's fields are as before
handle_tx_sent(n) == n
handle_retry_fail(n) == n
handle_over_tempResets(n) == [n EXCEPT !.state = "Reset"]
handle_over_temp(n) == n

\* poll_status between storing the snapshot and the good-CRC-sent test
LogConditions(n) ==
    LET a == IF i_txsent(n.status) THEN handle_tx_sent(n) ELSE n
        b == IF i_retryfail(a.status) THEN handle_retry_fail(a) ELSE a
    IN IF i_ocp_temp(b.status) \/ overtemp(b.status) THEN handle_over_temp(b) ELSE b

\* poll_status: the status burst read and the dispatch of what it shows.
PollStatus ==
    /\ pc = "poll"
    /\ \E fail \in 0..1, snap \in Snapshots, frame \in Arrivals :
         LET n == [Now EXCEPT !.buslog = Issued(<<R("Status0A", 7)>>, fail)]
             m == LogConditions([n EXCEPT !.status = snap, !.polled = TRUE])
             c == AfterPoll(ret, snap, m.state)
         IN IF fail # 0
            THEN frame = <<>> /\ snap = DefaultStatus
                 /\ EngineStep(TickEnd(n, "Err", "I2cError"))
            ELSE IF i_gcrcsent(snap)
                 THEN EngineStep([m EXCEPT !.rxfifo = Arrive(rxfifo, frame),
                                           !.pc = "drain"])
                 ELSE frame = <<>>
                      /\ EngineStep([m EXCEPT !.state = c.state, !.pc = c.pc,
                                              !.ret = c.ret, !.result = c.result])

\* handle_message: only a data message of type SourceCapabilities is handled
IsSourceCapabilitiesAnyCount(header) ==
    Header_message_type(header) = DataMessageType_SourceCapabilities
IsSourceCapabilities(header) ==
    /\ Header_num_data_objects(header) > 0
    /\ Header_message_type(header) \in DataMessageTypes
    /\ Header_message_type(header) = DataMessageType_SourceCapabilities

\* The FIFO reads of one pass of handle_new_data's loop for a frame whose
\* header declares n objects: token, header, payload (if any), CRC
FrameReadLensNoCrc(n) == IF n > 0 THEN <<1, 2, 4 * n>> ELSE <<1, 2>>
FrameReadLens(n) == IF n > 0 THEN <<1, 2, 4 * n, 4>> ELSE <<1, 2, 4>>

RECURSIVE SumFirst(_, _)
SumFirst(lens, k) == IF k = 0 THEN 0 ELSE lens[k] + SumFirst(lens, k - 1)

ReadOps(lens) == [i \in 1..Len(lens) |-> R("Fifos", lens[i])]

\* send's writes carry the FIFO register address as their first byte
SendOps(m) == [i \in 1..3 |-> WriteBytes("Fifos", Tail(SendWrites(m)[i]))]

\* handle_new_data: one pass of `while !Status1.rx_empty()`. `fail` is the
\* index of the bus operation of this pass that returns an error (0: none).
DrainStep ==
    /\ pc = "drain"
    /\ \E fail \in 0..9 :
         LET status1 == SetBits(0, 5, 1, Bool(rxfifo = <<>>))
             token == FifoData(rxfifo, 1)[1]
             header == FromLeBytes(FifoData(FifoRest(rxfifo, 1), 2))
             n == Header_num_data_objects(header)
             lens == FrameReadLens(n)
             body == FifoData(FifoRest(rxfifo, 3), 4 * n)
             reads == <<Rv("Status1", status1)>> \o ReadOps(lens)
             msg == <<[header |-> header, payload |-> body]>>
             prep == PrepareRequest(body, pdos, message_id)
             sfail == IF fail > Len(reads) THEN fail - Len(reads) ELSE 0
             c == AfterPoll(ret, status, state)
         IN
         IF fail = 1
         THEN EngineStep(TickEnd([Now EXCEPT !.buslog = Issued(reads, 1)],
                                 "Err", "I2cError"))
         ELSE IF rx_empty(status1)
         THEN \* the loop ends and poll_status returns Ok
              /\ fail = 0
              /\ EngineStep([Now EXCEPT !.buslog = <<reads[1]>>,
                                        !.state = c.state, !.pc = c.pc,
                                        !.ret = c.ret, !.result = c.result])
         ELSE IF RxToken_token(token) # RxTokenType_Sop
         THEN \* `continue`: the token is dropped
              /\ fail \in {0, 2}
              /\ IF fail = 2
                 THEN EngineStep(TickEnd([Now EXCEPT !.buslog = Issued(reads, 2)],
                                         "Err", "I2cError"))
                 ELSE EngineStep([Now EXCEPT !.buslog = SubSeq(reads, 1, 2),
                                             !.rxfifo = FifoRest(rxfifo, 1)])
         ELSE IF fail # 0 /\ fail <= Len(reads)
         THEN \* a FIFO read fails: the reads before it have consumed their bytes
              EngineStep(TickEnd(
                  [Now EXCEPT !.buslog = Issued(reads, fail),
                              !.rxfifo = FifoRest(rxfifo, SumFirst(lens, fail - 2))],
                  "Err", "I2cError"))
         ELSE IF ~IsSourceCapabilities(header)
         THEN \* unhandled_message
              /\ fail = 0
              /\ EngineStep([Now EXCEPT !.buslog = reads, !.rxmsg = msg,
                                        !.rxfifo = FifoRest(rxfifo, SumFirst(lens, Len(lens)))])
         ELSE IF ~prep.ok
         THEN /\ fail = 0
              /\ EngineStep(TickEnd(
                     [Now EXCEPT !.buslog = reads, !.rxmsg = msg,
                                 !.rxfifo = FifoRest(rxfifo, SumFirst(lens, Len(lens))),
                                 !.pdos = prep.pdos, !.num_pdos = prep.num_pdos,
                                 !.message_id = prep.message_id],
                     "Err", "Index"))
         ELSE \* handle_source_capabilities: the Request is built and sent
              /\ sfail <= 3
              /\ LET n2 == [Now EXCEPT
                               !.buslog = reads \o Issued(SendOps(prep.msg), sfail),
                               !.rxmsg = msg,
                               !.rxfifo = FifoRest(rxfifo, SumFirst(lens, Len(lens))),
                               !.pdos = prep.pdos, !.num_pdos = prep.num_pdos,
                               !.message_id = prep.message_id,
                               !.tx = [built |-> TRUE, msg |-> prep.msg,
                                       writes |-> SendCompleted(sfail)]]
                 IN IF sfail = 0 THEN EngineStep(n2)
                    ELSE EngineStep(TickEnd(n2, "Err", "I2cError"))

\* PollCC: the 500 ms delay, detect_cc_line (two 20 ms delays inside) and,
\* if it succeeded, fusb_reset. cc1_val and cc2_val are the comparator levels
\* the chip reports; `fail` is the index of the failing bus operation.
PollCCTick ==
    /\ pc = "tick" /\ state = "PollCC"
    /\ \E cc1_val \in 0..3, cc2_val \in 0..3, fail \in 0..11 :
         LET sample == [i \in 1..Len(DetectSampleOps) |->
                          IF i = 3 THEN Rv("Status0", cc1_val)
                          ELSE IF i = 5 THEN Rv("Status0", cc2_val)
                          ELSE DetectSampleOps[i]]
             config == DetectConfigOps(cc1_val, cc2_val)
             detect == sample \o config
             all == detect \o FusbResetOps
         IN
         \* (with a failing operation, only three pairs of readings are drawn)
         /\ fail # 0 => <<cc1_val, cc2_val>> \in {<<0, 0>>, <<2, 1>>, <<1, 2>>}
         /\ IF fail # 0 /\ fail <= Len(sample)
            THEN \* a bus error before the comparison
                 /\ cc1_val = 0 /\ cc2_val = 0
                 /\ EngineStep(TickEnd(
                        [TickStart EXCEPT !.buslog = Issued(sample, fail)],
                        DetectFailureResult, "I2cError"))
            ELSE IF cc1_val = cc2_val
            THEN \* Err(Error::NoCcDetected)
                 /\ fail = 0
                 /\ EngineStep(TickEnd([TickStart EXCEPT !.buslog = sample],
                                       DetectFailureResult, "NoCcDetected"))
            ELSE IF fail # 0 /\ fail <= Len(detect)
            THEN \* a bus error after the comparison; the RX flush is write 7
                 EngineStep(TickEnd(
                     [TickStart EXCEPT !.buslog = Issued(detect, fail),
                                       !.rxfifo = IF fail > 7 THEN <<>> ELSE rxfifo],
                     DetectFailureResult, "I2cError"))
            ELSE IF fail # 0
            THEN \* fusb_reset().await? returns the error
                 EngineStep(TickEnd(
                     [TickStart EXCEPT !.buslog = Issued(all, fail), !.rxfifo = <<>>],
                     "Err", "I2cError"))
            ELSE EngineStep(TickEnd(
                     [TickStart EXCEPT !.buslog = all, !.rxfifo = <<>>,
                                       !.state = "Online"],
                     "Ok", "none"))

InitEngine ==
    /\ InitPd
    /\ pc = "tick"

Init ==
    /\ InitEngine
    /\ InitBus
    /\ InitCodec
    /\ payload = <<>>

Next ==
    \/ PdLoop
    \/ ResetStart
    \/ SetupReadId
    \/ SetupConfig
    \/ WaitForVbusStart
    \/ PollCCTick
    \/ OnlineTick
    \/ WaitInterrupt
    \/ PollStatus
    \/ DrainStep

Spec == Init /\ [][Next]_vars

----------------------------------------------------------------------------
(* SpecFraming: handle_new_data, entered from a status poll of the Online   *)
(* state that showed good-CRC-sent, over FIFO contents made of up to        *)
(* MaxFrames frames, each behind zero or two non-SOP tokens. No further     *)
(* data arrives while the FIFO is drained. The session is new, or has       *)
(* answered six or seven one-offer capabilities messages before.            *)

MaxFrames == 2

\* Token bytes whose token field (bits 5..7) is not Sop: Sop1, and a byte
\* whose low three bits are all set
NonSopTokens == <<192, 7>>

\* One received frame per object count 0..MAX_PDOS: Accept for 0,
\* SourceCapabilities otherwise; the control messages GoodCrc (type 1, the
\* number SourceCapabilities has among the data messages) and PsRdy; and the
\* one-object data messages Request, SinkCapabilities and type 10, which
\* DataMessageType does not name
FramedMessages ==
    {Frame(224, PeerHeader(3, 0), <<>>),
     Frame(224, PeerHeader(1, 0), <<>>),
     Frame(224, PeerHeader(6, 0), <<>>),
     Frame(224, PeerHeader(2, 1), EncodeOffers(FramedOffers(1))),
     Frame(224, PeerHeader(10, 1), EncodeOffers(FramedOffers(1))),
     Frame(224, PeerHeader(4, 1), EncodeOffers(FramedOffers(1)))}
    \cup {CapsFrame(FramedOffers(n)) : n \in 1..MAX_PDOS}

FramedUnits == FramedMessages \cup {NonSopTokens \o f : f \in FramedMessages}

RECURSIVE Concat(_)
Concat(units) == IF units = <<>> THEN <<>> ELSE Head(units) \o Concat(Tail(units))

FifoContents ==
    {Concat(u) : u \in UNION {[1..k -> FramedUnits] : k \in 1..MaxFrames}}

\* Status burst with good-CRC-sent and VBUS-ok
GoodCrcSnapshot == <<0, 0, 0, 1, 128, 0, 0>>

\* Requests sent earlier in the session
EarlierRequests == {0, 6, 7}

InitFraming ==
    /\ state = "Online"
    /\ status = GoodCrcSnapshot
    /\ message_id \in EarlierRequests
    /\ pdos = IF message_id = 0 THEN NoPdos
              ELSE DecodePdos(EncodeOffers(FramedOffers(1)), NoPdos).pdos
    /\ num_pdos = IF message_id = 0 THEN 0 ELSE 1
    /\ pc = "drain"
    /\ ret = "online"
    /\ retries = 0
    /\ rxfifo \in FifoContents
    /\ result = "run"
    /\ failure = "none"
    /\ tickOf = "Online"
    /\ polled = TRUE
    /\ buslog = <<R("Status0A", 7)>>
    /\ tx = NoTx
    /\ lastTxId = -1
    /\ faults = 0
    /\ rxmsg = <<>>
    /\ txfifo = <<>>
    /\ InitBus
    /\ InitCodec
    /\ payload = <<>>

NextFraming == DrainStep

\* The engine task is polled again whenever its bus operations complete:
\* weak fairness of DrainStep, which is enabled exactly when pc = "drain"
DrainFairness == []<>(pc # "drain") \/ []<><<DrainStep>>_vars

SpecFraming == InitFraming /\ [][NextFraming]_vars /\ DrainFairness

----------------------------------------------------------------------------
(* SpecSelect: handle_source_capabilities on the payloads of OfferLists     *)

\* Every list of 1..MaxOffers offers over the alphabet, and every list that
\* fills all 7 entries of Pd.pdos over a three-offer alphabet (one offer
\* within the limit, one above it, one with zero power).
MaxOffers == 4

OfferLists ==
    UNION {[1..n -> OfferAlphabet] : n \in 1..MaxOffers}
    \cup [1..MAX_PDOS -> {Offer9V2A, Offer20V1A, Offer5V0A}]

InitSelect ==
    /\ InitPd
    /\ InitBus
    /\ InitCodec
    /\ payload \in {EncodeOffers(l) : l \in OfferLists}
    /\ pc = "select"

\* handle_source_capabilities(payload) with the engine's fields as they are
\* after construction; the bus decides how many of send's writes succeed.
SelectApply ==
    /\ pc = "select"
    /\ \E fail \in 0..3 :
         LET r == PrepareRequest(payload, pdos, message_id) IN
         /\ pdos' = r.pdos
         /\ num_pdos' = r.num_pdos
         /\ message_id' = r.message_id
         /\ tx' = [built |-> TRUE, msg |-> r.msg, writes |-> SendCompleted(fail)]
         /\ lastTxId' = IF fail = 0 THEN Header_message_id(RequestHeader(message_id))
                        ELSE lastTxId
         /\ result' = IF fail = 0 THEN "Ok" ELSE "Err"
         /\ failure' = IF fail = 0 THEN "none" ELSE "I2cError"
         /\ txfifo' = TxFifoAfter(txfifo, Issued(SendOps(r.msg), fail))
    /\ pc' = "selected"
    /\ UNCHANGED <<state, status, ret, retries, rxfifo, tickOf, polled,
                   buslog, payload, faults, rxmsg, codec>>
    /\ UNCHANGED busVars

\* A later, shorter capabilities message: after a Request for a 7-offer
\* list went out, the source sends a list of 1..MaxShort offers.
MaxShort == 2

LongLists ==
    {[k \in 1..MAX_PDOS |-> Offer9V2A],
     [k \in 1..MAX_PDOS |-> IF k = 1 THEN Offer20V1A ELSE Offer9V2A]}

ShortLists == UNION {[1..n -> OfferAlphabet] : n \in 1..MaxShort}

SelectAgain ==
    /\ pc = "selected"
    /\ payload \in {EncodeOffers(l) : l \in LongLists}
    /\ Transmitted(tx)
    /\ payload' \in {EncodeOffers(l) : l \in ShortLists}
    /\ pc' = "select"
    /\ tx' = NoTx
    /\ result' = "none"
    /\ failure' = "none"
    /\ UNCHANGED <<state, status, pdos, num_pdos, message_id, ret, retries,
                   rxfifo, tickOf, polled, buslog, lastTxId, faults, rxmsg,
                   txfifo, codec>>
    /\ UNCHANGED busVars

NextSelect ==
    \/ SelectApply
    \/ SelectAgain

SpecSelect == InitSelect /\ [][NextSelect]_vars

----------------------------------------------------------------------------
(* SpecRequest: handle_source_capabilities on lists that place an offer of  *)
(* every 10-bit maximum current at every index of Pd.pdos                   *)

\* i zero-power offers followed by a 5 V offer of raw current c
RequestLists ==
    {[k \in 1..(i + 1) |-> IF k = i + 1 THEN Offer(100, c) ELSE Offer5V0A] :
        i \in 0..(MAX_PDOS - 1), c \in 0..1023}

InitRequest ==
    /\ InitPd
    /\ InitBus
    /\ InitCodec
    /\ payload \in {EncodeOffers(l) : l \in RequestLists}
    /\ pc = "select"

NextRequest == SelectApply

SpecRequest == InitRequest /\ [][NextRequest]_vars

----------------------------------------------------------------------------
(* SpecBuffer: a Fusb302MessageBuffer under any sequence of write_header    *)
(* and write_data calls                                                     *)

BufferObjects == {287454020, 1432778632}
BufferHeaders == {RequestHeader(0), RequestHeader(7)}

InitBuffer ==
    /\ InitPd
    /\ InitBus
    /\ InitCodec
    /\ payload = <<>>
    /\ pc = "buffer"

BufferWriteHeader ==
    /\ pc = "buffer"
    /\ \E h \in BufferHeaders :
         tx' = [tx EXCEPT !.msg = write_header(tx.msg, h)]
    /\ result' = "none"
    /\ failure' = "none"
    /\ UNCHANGED <<state, status, pdos, num_pdos, message_id, pc, ret, retries,
                   rxfifo, tickOf, polled, buslog, lastTxId, faults, payload,
                   rxmsg, txfifo, codec>>
    /\ UNCHANGED busVars

BufferWriteData ==
    /\ pc = "buffer"
    /\ \E object \in BufferObjects :
         LET r == write_data(tx.msg, object) IN
         /\ tx' = [tx EXCEPT !.msg = r.msg]
         /\ result' = IF r.ok THEN "Ok" ELSE "Err"
         /\ failure' = IF r.ok THEN "none" ELSE "Index"
    /\ UNCHANGED <<state, status, pdos, num_pdos, message_id, pc, ret, retries,
                   rxfifo, tickOf, polled, buslog, lastTxId, faults, payload,
                   rxmsg, txfifo, codec>>
    /\ UNCHANGED busVars

\* Fusb302MessageBuffer::send on the buffer as built so far; `fail` is the
\* index of the write that returns a bus error (0: none)
BufferSend ==
    /\ pc = "buffer"
    /\ \E fail \in 0..3 :
         /\ buslog' = Issued(SendOps(tx.msg), fail)
         /\ txfifo' = TxFifoAfter(txfifo, Issued(SendOps(tx.msg), fail))
         /\ tx' = [tx EXCEPT !.built = TRUE, !.writes = SendCompleted(fail)]
         /\ result' = IF fail = 0 THEN "Ok" ELSE "Err"
         /\ failure' = IF fail = 0 THEN "none" ELSE "I2cError"
    /\ pc' = "sent"
    /\ UNCHANGED <<state, status, pdos, num_pdos, message_id, ret, retries,
                   rxfifo, tickOf, polled, lastTxId, faults, payload,
                   rxmsg, codec>>
    /\ UNCHANGED busVars

NextBuffer ==
    \/ BufferWriteHeader
    \/ BufferWriteData
    \/ BufferSend

SpecBuffer == InitBuffer /\ [][NextBuffer]_vars

----------------------------------------------------------------------------
(* SpecCodec: the bit-field types of proto.rs and the receive token of      *)
(* fusb302.rs, decoded from raw words, built from field assignments and     *)
(* changed one field at a time.                                             *)

\* Field i of a layout: name, lowest bit, width, and the largest value the
\* model assigns to it. (Words are kept below 2^31, the range of the
\* model's integers: the top field of a 32-bit word stays below half its
\* range.)
Field(name, lo, width, max) == [name |-> name, lo |-> lo, width |-> width, max |-> max]

HeaderLayout ==
    <<Field("message_type", 0, 5, 31), Field("data_rate", 5, 1, 1),
      Field("spec_revision", 6, 2, 3), Field("port_power_role", 8, 1, 1),
      Field("message_id", 9, 3, 7), Field("num_data_objects", 12, 3, 7),
      Field("extended", 15, 1, 1)>>

FixedSupplyPdoLayout ==
    <<Field("raw_max_current", 0, 10, 1023), Field("raw_voltage", 10, 10, 1023),
      Field("peak_current", 20, 2, 3), Field("_reserved", 22, 1, 1),
      Field("epr_mode_capable", 23, 1, 1),
      Field("unchunked_extended_messages_supported", 24, 1, 1),
      Field("dual_role_data", 25, 1, 1),
      Field("usb_communications_capable", 26, 1, 1),
      Field("unconstrainted_power", 27, 1, 1),
      Field("usb_suspend_supporrted", 28, 1, 1),
      Field("dual_role_power", 29, 1, 1), Field("pdo_type", 30, 2, 1)>>

FixedVariableSupplyRequestLayout ==
    <<Field("raw_min_operating_current", 0, 10, 1023),
      Field("raw_operating_current", 10, 10, 1023),
      Field("_reserved", 20, 2, 3), Field("erp_mode_capable", 22, 1, 1),
      Field("unchuncked_extended_messages_supported", 23, 1, 1),
      Field("no_usb_suspend", 24, 1, 1),
      Field("usb_communications_capable", 25, 1, 1),
      Field("capability_mismatch", 26, 1, 1), Field("give_back", 27, 1, 1),
      Field("object_position", 28, 4, 7)>>

CodecTypes == {"Header", "FixedSupplyPdo", "FixedVariableSupplyRequest"}

LayoutOf(type) ==
    CASE type = "Header" -> HeaderLayout
      [] type = "FixedSupplyPdo" -> FixedSupplyPdoLayout
      [] OTHER -> FixedVariableSupplyRequestLayout

\* The getters: every field of the word
FieldsOf(layout, raw) ==
    [i \in 1..Len(layout) |-> GetBits(raw, layout[i].lo, layout[i].width)]

\* with_<field>(v) on a word
WithField(layout, raw, i, v) == SetBits(raw, layout[i].lo, layout[i].width, v)

\* new() followed by the setter of every field among the first k
RECURSIVE BuildFrom(_, _, _)
BuildFrom(layout, f, k) ==
    IF k = 0 THEN 0 ELSE WithField(layout, BuildFrom(layout, f, k - 1), k, f[k])

\* A field has no setter when its name starts with an underscore
HasSetter(fld) == fld.name # "_reserved"

\* Values drawn for a field: its extremes and 1
FieldSamples(fld) == {0, 1, fld.max}

\* Field vectors drawn for a layout: every field at its minimum, at its
\* maximum, alternating, and each of these with two fields set to samples
BaseVectors(layout) ==
    {[i \in 1..Len(layout) |-> 0],
     [i \in 1..Len(layout) |-> layout[i].max],
     [i \in 1..Len(layout) |-> IF i % 2 = 1 THEN layout[i].max ELSE 0]}

FieldVectors(layout) ==
    {[b EXCEPT ![i] = v, ![j] = w] :
        b \in BaseVectors(layout), i \in 1..Len(layout), j \in 1..Len(layout),
        v \in {0, 1, 2, 5}, w \in {0, 1, 3, 7}}

\* Vectors within every field's range
InRange(layout, f) == \A i \in 1..Len(layout) : f[i] <= layout[i].max

\* Vectors an application can assign: fields without a setter stay zero
Assignable(layout, f) ==
    InRange(layout, f) /\ \A i \in 1..Len(layout) : ~HasSetter(layout[i]) => f[i] = 0

InitCodecTest ==
    /\ InitPd
    /\ InitBus
    /\ InitCodec
    /\ payload = <<>>
    /\ pc = "codec"

\* One conversion is applied to one drawn value
CodecUnchanged ==
    /\ pc' = "coded"
    /\ UNCHANGED <<state, status, pdos, num_pdos, message_id, ret, retries,
                   rxfifo, result, failure, tickOf, polled, buslog, tx, lastTxId,
                   faults, rxmsg, txfifo, payload>>
    /\ UNCHANGED busVars

\* T::from(raw), the getters, and the word built again from what they return
CodecFrom ==
    /\ pc = "codec"
    /\ \E type \in CodecTypes :
         LET l == LayoutOf(type) IN
         \E f \in FieldVectors(l) :
            /\ InRange(l, f)
            /\ LET raw == BuildFrom(l, f, Len(l)) IN
               codec' = [type |-> type, op |-> "from", raw |-> raw,
                         fields |-> FieldsOf(l, raw),
                         raw2 |-> BuildFrom(l, FieldsOf(l, raw), Len(l)),
                         fields2 |-> <<>>]
    /\ CodecUnchanged

\* T::new().with_..(..) for every field with a setter, then the getters
CodecBuild ==
    /\ pc = "codec"
    /\ \E type \in CodecTypes :
         LET l == LayoutOf(type) IN
         \E f \in FieldVectors(l) :
            /\ Assignable(l, f)
            /\ LET raw == BuildFrom(l, f, Len(l)) IN
               codec' = [type |-> type, op |-> "build", raw |-> raw,
                         fields |-> f, raw2 |-> raw,
                         fields2 |-> FieldsOf(l, raw)]
    /\ CodecUnchanged

\* value.with_<field i>(v) on a word holding other fields
CodecWith ==
    /\ pc = "codec"
    /\ \E type \in CodecTypes :
         LET l == LayoutOf(type) IN
         \E b \in BaseVectors(l), i \in 1..Len(l) :
            \E v \in FieldSamples(l[i]) :
               /\ HasSetter(l[i])
               /\ LET raw == BuildFrom(l, b, Len(l)) IN
                  codec' = [type |-> type, op |-> "with", raw |-> raw,
                            fields |-> [FieldsOf(l, raw) EXCEPT ![i] = v],
                            raw2 |-> WithField(l, raw, i, v),
                            fields2 |-> FieldsOf(l, WithField(l, raw, i, v))]
    /\ CodecUnchanged

\* RxToken::from(byte).token() for every FIFO byte
TokenDecode ==
    /\ pc = "codec"
    /\ \E byte \in 0..255 :
         codec' = [type |-> "RxToken", op |-> "from", raw |-> byte,
                   fields |-> <<RxToken_token(byte)>>,
                   raw2 |-> byte, fields2 |-> <<>>]
    /\ CodecUnchanged

NextCodec ==
    \/ CodecFrom
    \/ CodecBuild
    \/ CodecWith
    \/ TokenDecode

SpecCodec == InitCodecTest /\ [][NextCodec]_vars

----------------------------------------------------------------------------
(* SpecPower: FixedSupplyPdo::voltage, max_current and power on a word      *)
(* holding every 10-bit raw voltage and every 10-bit raw current            *)

InitPower ==
    /\ InitPd
    /\ InitBus
    /\ payload = <<>>
    /\ pc = "power"
    /\ codec \in {[type |-> "FixedSupplyPdo", op |-> "from",
                   raw |-> Offer(raw_voltage, 0), fields |-> <<>>,
                   raw2 |-> 0, fields2 |-> <<>>] : raw_voltage \in 0..1023}

\* The three derived getters on the word; fields2 keeps the halves of the
\* u32 product and whether the multiplication lost bits
PowerApply ==
    /\ pc = "power"
    /\ \E raw_current \in 0..1023 :
         LET p == SetBits(codec.raw, 0, 10, raw_current)
             product == U32Mul(voltage(p), max_current(p))
         IN codec' = [type |-> "FixedSupplyPdo", op |-> "power", raw |-> p,
                      fields |-> <<voltage(p), max_current(p), power(p)>>,
                      raw2 |-> codec.raw,
                      fields2 |-> <<product.hi, product.lo, Bool(product.overflow)>>]
    /\ CodecUnchanged

NextPower == PowerApply

SpecPower == InitPower /\ [][NextPower]_vars

----------------------------------------------------------------------------
(* SpecBus: the tasks sharing the bus mutex.                               *)
(* A task calls a bus helper (tpc "lock": suspended in lock().await),      *)
(* obtains the guard ("held"), issues its transactions one after another   *)
(* ("txn" while one is on the bus) and returns, which drops the guard.     *)
(* The debug handlers answer on their socket before they return            *)
(* ("respond"). The engine also suspends on timers and on the interrupt    *)
(* pin ("await"). Steps are taken one bus transaction at a time, which     *)
(* lets the other tasks run between any two of them.                       *)

\* The helpers each task reaches the bus through
PdHelpers == {"i2c_write_u8", "i2c_read_u8", "fusb302_read", "send"}
WebHelpers == {"i2c_read", "i2c_read_multiple", "i2c_write"}

\* Bq25620::init reads PartInformation; tick writes AdcControl, then reads
\* VsysAdc and VbusAdc
BqHelper(step) ==
    CASE step = "init" -> "i2c_read_u8"
      [] step = "adc" -> "i2c_write_u8"
      [] OTHER -> "i2c_read_u16"

\* handle_bq: init's result is printed and the tick loop starts; a tick
\* that fails is logged and the next tick starts again at AdcControl
BqNextStops(step, ok) ==
    CASE ~ok -> "stopped"
      [] step = "adc" -> "vsys"
      [] step = "vsys" -> "vbus"
      [] OTHER -> "adc"
BqNext(step, ok) ==
    CASE step = "adc" /\ ok -> "vsys"
      [] step = "vsys" /\ ok -> "vbus"
      [] OTHER -> "adc"

HelpersOf(t) ==
    IF t = "pd" THEN PdHelpers
    ELSE IF t = "bq" THEN {BqHelper(bqstep)}
    ELSE WebHelpers

\* Bus transactions a helper issues under its guard when none fails
TransactionsTwice(op) == IF op = "send" THEN 3 ELSE 2
Transactions(op) == IF op = "send" THEN 3 ELSE 1

\* web.rs: socket.write_all(..).await follows the transaction while the
\* guard `i2c` is still in scope
Responds(op) == op \in WebHelpers

\* Mutex::lock().await completes when no guard is alive
CanAcquireAlways(h) == TRUE
CanAcquire(h) == h = "none"

\* The guard is a local of the helper: it is dropped when the helper
\* returns, by `?` as well as by the final Ok
UnlockOnSuccess(h, t, ok) == IF ok /\ h = t THEN "none" ELSE h
Unlock(h, t, ok) == IF h = t THEN "none" ELSE h

\* The helper of task t returns with result ok
Return(t, ok, n) ==
    /\ holder' = Unlock(holder, t, ok)
    /\ tpc' = [tpc EXCEPT ![t] = "idle"]
    /\ top' = [top EXCEPT ![t] = "none"]
    /\ lastAcq' = [task |-> t, op |-> top[t], txns |-> n, ok |-> ok]
    /\ txns' = 0
    /\ bqstep' = IF t = "bq" THEN BqNext(bqstep, ok) ELSE bqstep

\* A task calls a bus helper and suspends in lock().await
BusCall ==
    /\ \E t \in Tasks : \E op \in HelpersOf(t) :
            /\ tpc[t] = "idle"
            /\ tpc' = [tpc EXCEPT ![t] = "lock"]
            /\ top' = [top EXCEPT ![t] = op]
            /\ lastAcq' = NoAcq
            /\ UNCHANGED <<holder, txns, bqstep, unlocked>>
    /\ UNCHANGED <<engineVars, payload, codec>>

\* The engine suspends on Timer::after or pd_int_n.wait_for_low()
PdAwait ==
    /\ tpc["pd"] = "idle"
    /\ tpc' = [tpc EXCEPT !["pd"] = "await"]
    /\ lastAcq' = NoAcq
    /\ UNCHANGED <<holder, top, txns, bqstep, unlocked>>
    /\ UNCHANGED <<engineVars, payload, codec>>

PdWake ==
    /\ tpc["pd"] = "await"
    /\ tpc' = [tpc EXCEPT !["pd"] = "idle"]
    /\ lastAcq' = NoAcq
    /\ UNCHANGED <<holder, top, txns, bqstep, unlocked>>
    /\ UNCHANGED <<engineVars, payload, codec>>

\* lock().await completes
Acquire ==
    /\ \E t \in Tasks :
            /\ tpc[t] = "lock"
            /\ CanAcquire(holder)
            /\ holder' = t
            /\ tpc' = [tpc EXCEPT ![t] = "held"]
            /\ txns' = 0
            /\ lastAcq' = NoAcq
            /\ UNCHANGED <<top, bqstep, unlocked>>
    /\ UNCHANGED <<engineVars, payload, codec>>

\* i2c.write / i2c.write_read starts
BeginTxnRelocks ==
    /\ \E t \in Tasks :
            /\ tpc[t] = "held"
            /\ tpc' = [tpc EXCEPT ![t] = IF top[t] = "send" THEN "lock" ELSE "txn"]
            /\ unlocked' = (unlocked \/ holder # t)
            /\ lastAcq' = NoAcq
            /\ UNCHANGED <<holder, top, txns, bqstep>>
    /\ UNCHANGED <<engineVars, payload, codec>>
BeginTxn ==
    /\ \E t \in Tasks :
            /\ tpc[t] = "held"
            /\ tpc' = [tpc EXCEPT ![t] = "txn"]
            /\ unlocked' = (unlocked \/ holder # t)
            /\ lastAcq' = NoAcq
            /\ UNCHANGED <<holder, top, txns, bqstep>>
    /\ UNCHANGED <<engineVars, payload, codec>>

\* The transaction completes with ok; `?` returns on an error, as does the
\* end of the helper after its last transaction
EndTxnReleasesBetween ==
    /\ \E t \in Tasks, ok \in BOOLEAN :
            /\ tpc[t] = "txn"
            /\ IF ok /\ txns + 1 < Transactions(top[t])
               THEN /\ tpc' = [tpc EXCEPT ![t] = "held"]
                    /\ txns' = txns + 1
                    /\ lastAcq' = NoAcq
                    /\ holder' = "none"
                    /\ UNCHANGED <<top, bqstep>>
               ELSE IF ok /\ Responds(top[t])
               THEN /\ tpc' = [tpc EXCEPT ![t] = "respond"]
                    /\ txns' = txns + 1
                    /\ lastAcq' = NoAcq
                    /\ UNCHANGED <<holder, top, bqstep>>
               ELSE Return(t, ok, txns + 1)
            /\ UNCHANGED unlocked
    /\ UNCHANGED <<engineVars, payload, codec>>
EndTxn ==
    /\ \E t \in Tasks, ok \in BOOLEAN :
            /\ tpc[t] = "txn"
            /\ IF ok /\ txns + 1 < Transactions(top[t])
               THEN /\ tpc' = [tpc EXCEPT ![t] = "held"]
                    /\ txns' = txns + 1
                    /\ lastAcq' = NoAcq
                    /\ UNCHANGED <<holder, top, bqstep>>
               ELSE IF ok /\ Responds(top[t])
               THEN /\ tpc' = [tpc EXCEPT ![t] = "respond"]
                    /\ txns' = txns + 1
                    /\ lastAcq' = NoAcq
                    /\ UNCHANGED <<holder, top, bqstep>>
               ELSE Return(t, ok, txns + 1)
            /\ UNCHANGED unlocked
    /\ UNCHANGED <<engineVars, payload, codec>>

\* socket.write_all(..).await completes, with Ok or with an error: the
\* handler returns either way
Respond ==
    /\ \E t \in Tasks, ok \in BOOLEAN :
            /\ tpc[t] = "respond"
            /\ Return(t, ok, txns)
            /\ UNCHANGED unlocked
    /\ UNCHANGED <<engineVars, payload, codec>>

InitBusTasks ==
    /\ InitPd
    /\ InitBus
    /\ InitCodec
    /\ payload = <<>>
    /\ pc = "bus"

NextBus ==
    \/ BusCall
    \/ PdAwait
    \/ PdWake
    \/ Acquire
    \/ BeginTxn
    \/ EndTxn
    \/ Respond

SpecBus == InitBusTasks /\ [][NextBus]_vars

----------------------------------------------------------------------------
(* SpecSession: pd::task, the engine loop joined with the charger monitor.  *)
(* The engine's own bus operations succeed; each of the charger monitor's   *)
(* bus helpers runs between two steps of the engine and may fail.           *)

InitSession ==
    /\ state = "Reset"
    /\ status = DefaultStatus
    /\ pdos = NoPdos
    /\ num_pdos = 0
    /\ message_id = 0
    /\ pc = "tick"
    /\ ret = "none"
    /\ retries = 0
    /\ rxfifo = <<>>
    /\ result = "none"
    /\ failure = "none"
    /\ tickOf = "none"
    /\ polled = FALSE
    /\ buslog = <<>>
    /\ tx = NoTx
    /\ lastTxId = -1
    /\ faults = MaxFaults
    /\ rxmsg = <<>>
    /\ txfifo = <<>>
    /\ InitBus
    /\ InitCodec
    /\ payload = <<>>

\* handle_bq: the bus helper of the monitor's current step locks the bus,
\* issues its transaction and returns ok; init's result is printed, a
\* failed tick is printed, and the loop goes on
BqStep ==
    /\ CanAcquire(holder)
    /\ \E ok \in BOOLEAN :
         /\ bqstep' = BqNext(bqstep, ok)
         /\ lastAcq' = [task |-> "bq", op |-> BqHelper(bqstep),
                        txns |-> Transactions(BqHelper(bqstep)), ok |-> ok]
    /\ UNCHANGED <<holder, tpc, top, txns, unlocked>>
    /\ UNCHANGED <<engineVars, payload, codec>>

NextSession ==
    \/ PdLoop
    \/ ResetStart
    \/ SetupReadId
    \/ SetupConfig
    \/ WaitForVbusStart
    \/ PollCCTick
    \/ OnlineTick
    \/ WaitInterrupt
    \/ PollStatus
    \/ DrainStep
    \/ BqStep

SpecSession == InitSession /\ [][NextSession]_vars

----------------------------------------------------------------------------
(* SpecLive: the engine loop in a well-behaved environment, under fair      *)
(* scheduling of the engine task.                                           *)

\* What the environment does in a step: every bus operation succeeds, the
\* identity register reads neither 0x00 nor 0xFF, the two CC readings
\* differ, and a status burst read while waiting for VBUS shows VBUS-ok.
\* (Once Online, a burst may report VBUS-ok clear.)
WellBehaved ==
    /\ \A i \in DOMAIN buslog' :
          /\ buslog'[i].ok
          /\ buslog'[i].reg = "DeviceId" => buslog'[i].val \notin {<<0>>, <<255>>}
    /\ failure' # "NoCcDetected"
    /\ (pc = "poll" /\ tickOf = "WaitForVbus") => vbusok(status')

\* The steps the engine task takes when the executor polls it: all but the
\* completion of pd_int_n.wait_for_low(), which waits for the chip
EngineRuns ==
    \/ PdLoop /\ WellBehaved
    \/ ResetStart /\ WellBehaved
    \/ SetupReadId /\ WellBehaved
    \/ SetupConfig /\ WellBehaved
    \/ WaitForVbusStart /\ WellBehaved
    \/ PollCCTick /\ WellBehaved
    \/ OnlineTick /\ WellBehaved
    \/ PollStatus /\ WellBehaved
    \/ DrainStep /\ WellBehaved

\* The interrupt line asserts
InterruptAsserts == WaitInterrupt /\ WellBehaved

NextLive ==
    \/ EngineRuns
    \/ InterruptAsserts

\* handle_pd is spawned once and the executor polls it whenever it is
\* ready to run: weak fairness of EngineRuns, which is enabled exactly when
\* the task is not suspended on the interrupt line
EngineFairness == []<>(pc = "wait_int") \/ []<><<EngineRuns>>_vars

\* The chip asserts the interrupt line when its status has changed
SpecLive ==
    Init /\ [][NextLive]_vars /\ EngineFairness /\ WF_vars(InterruptAsserts)

----------------------------------------------------------------------------
(* Properties of the engine (Spec)                                         *)

\* C1: the engine starts in Reset, and over any sequence of ticks the
\* protocol state changes only along Reset -> WaitForVbus,
\* WaitForVbus -> PollCC, PollCC -> Online and Online -> Reset.
C1_StateChangesAlongCycle ==
    /\ state = "Reset"
    /\ [][state' # state =>
             <<state, state'>> \in {<<"Reset", "WaitForVbus">>,
                                    <<"WaitForVbus", "PollCC">>,
                                    <<"PollCC", "Online">>,
                                    <<"Online", "Reset">>}]_vars

\* An Online tick has taken the engine back to Reset
C1_CycleClosed == pc = "done" /\ tickOf = "Online" /\ state = "Reset"

\* C2: every Online tick whose status poll returned a snapshot with VBUS-ok
\* clear ends with the state set to Reset, also when the same poll
\* dispatched a received message.
C2_VbusLossEndsInReset ==
    (pc = "done" /\ tickOf = "Online" /\ polled /\ ~vbusok(status))
        => state = "Reset"

\* C5: the message IDs of successive Requests transmitted on the bus
\* increase by exactly 1 modulo 8, also in runs in which bus writes fail.
C5_TransmittedIdsSuccessive ==
    [][(Transmitted(tx') /\ lastTxId # -1) =>
          Header_message_id(FromLeBytes(<<tx'.msg.buffer[1], tx'.msg.buffer[2]>>))
              = (lastTxId + 1) % 8]_vars

\* C10: every failure of a per-tick operation is returned as an Err from
\* tick(); no state handler reports a tick with a failure as successful.
C10_FailureReturnedAsErr ==
    (pc = "done" /\ failure # "none") => result = "Err"

\* C11: the engine loop never terminates on error: after a tick that
\* returned Err the loop runs another tick, and a tick that returns Err
\* leaves the protocol state as it was when the tick was dispatched.
C11_ErrTickKeepsStateAndLoops ==
    /\ []((pc = "done" /\ result = "Err") => state = tickOf)
    /\ [](pc = "done" => ENABLED PdLoop)
    /\ [][(pc = "done" /\ result = "Err") =>
             (pc' = "tick" /\ state' = state)]_vars

\* An Online tick has returned Err
C11_OnlineTickFailed ==
    pc = "done" /\ result = "Err" /\ tickOf = "Online" /\ state = "Online"

\* C12: a Reset tick moves the state to WaitForVbus if and only if bring-up
\* completed successfully; if it fails at any step (identity check
\* exhausted, any register write failing) the state is still Reset.
C12_ResetAdvancesIffSetupOk ==
    (pc = "done" /\ tickOf = "Reset") =>
        /\ state = "WaitForVbus" <=>
              (failure = "none" /\ Len(buslog) = 8
               /\ \A i \in 1..8 : buslog[i].ok /\ buslog[i].op = "write")
        /\ failure # "none" => state = "Reset"
        /\ state \in {"Reset", "WaitForVbus"}

\* Bring-up failed at the last of its register writes
C12_SetupFailedAtLastWrite ==
    /\ pc = "done" /\ tickOf = "Reset" /\ state = "Reset"
    /\ Len(buslog) = 8 /\ ~buslog[8].ok

\* C13: during bring-up the identity register is read at most 5 times;
\* reading stops at the first attempt that succeeds; an attempt fails when
\* the bus read errors or returns 0x00 or 0xFF; bring-up reports a
\* soft-reset failure exactly when all 5 attempts fail, and then none of the
\* later bring-up writes is issued.
C13_IdentityReadAtMostFiveTimes ==
    /\ [](pc \in {"setup_id", "setup_cfg"} => retries \in 1..5)
    /\ []((pc = "done" /\ failure = "SoftResetFailure") =>
             /\ retries = 0 /\ tickOf = "Reset"
             /\ Len(buslog) = 1 /\ buslog[1].reg = "DeviceId")
    /\ [][pc = "setup_id" =>
             /\ Len(buslog') = 1
             /\ buslog'[1].op = "read" /\ buslog'[1].reg = "DeviceId"
             /\ IF buslog'[1].ok /\ buslog'[1].val \notin {<<0>>, <<255>>}
                THEN pc' = "setup_cfg" /\ retries' = retries
                ELSE /\ retries' = retries - 1
                     /\ IF retries = 1
                        THEN pc' = "done" /\ failure' = "SoftResetFailure"
                        ELSE pc' = "setup_id" /\ failure' = "none"]_vars
    /\ [][(\E i \in DOMAIN buslog' :
               buslog'[i].reg \in {"Power", "Mask1", "MaskA", "MaskB", "Control3",
                                   "Control2"})
             => (pc = "setup_cfg" /\ failure = "none")]_vars

\* All five identity reads failed
C13_FiveAttemptsFailed ==
    pc = "done" /\ failure = "SoftResetFailure" /\ retries = 0

\* C14: the state moves from WaitForVbus to PollCC only in a tick whose
\* most recent status snapshot has the VBUS-ok bit set; while the snapshot
\* shows VBUS-ok clear the handler waits for an interrupt and re-polls and
\* never advances to PollCC.
C14_PollCCOnlyWithVbusOk ==
    /\ [][(state = "WaitForVbus" /\ state' # state) =>
             /\ state' = "PollCC"
             /\ tickOf' = "WaitForVbus" /\ polled'
             /\ (status'[5] \div 128) % 2 = 1]_vars
    /\ []((tickOf = "WaitForVbus" /\ polled /\ (status[5] \div 128) % 2 = 0) =>
             state = "WaitForVbus")
    /\ []((tickOf = "WaitForVbus" /\ polled /\ (status[5] \div 128) % 2 = 0
            /\ result = "run" /\ pc # "drain") =>
             /\ pc \in {"wait_int", "poll"}
             /\ ret \in {"wfv_int", "wfv_check"})

\* A WaitForVbus tick has seen VBUS-ok and moved on to PollCC
C14_VbusSeen ==
    /\ pc = "done" /\ tickOf = "WaitForVbus" /\ state = "PollCC"
    /\ (status[5] \div 128) % 2 = 1

\* C15: a PollCC tick moves the state to Online only if CC detection
\* succeeded and then the TX-flush, RX-flush and PD-reset writes all
\* succeeded, in that order; if CC detection fails the state remains PollCC
\* and no protocol-level reset write is issued.
C15_OnlineOnlyAfterDetectAndReset ==
    (pc = "done" /\ tickOf = "PollCC") =>
        /\ state \in {"PollCC", "Online"}
        /\ state = "Online" =>
              /\ Len(buslog) = 11
              /\ \A i \in 1..11 : buslog[i].ok
              /\ buslog[8].reg = "Switches1"
              /\ <<buslog[9].reg, buslog[9].val>> = <<"Control0", <<68>>>>
              /\ <<buslog[10].reg, buslog[10].val>> = <<"Control1", <<4>>>>
              /\ <<buslog[11].reg, buslog[11].val>> = <<"Reset", <<2>>>>
        /\ (failure = "NoCcDetected"
            \/ (failure = "I2cError" /\ Len(buslog) <= 8)) =>
              /\ state = "PollCC"
              /\ \A i \in DOMAIN buslog : buslog[i].reg \notin {"Control0", "Reset"}

\* A PollCC tick has brought the engine Online
C15_WentOnline ==
    pc = "done" /\ tickOf = "PollCC" /\ state = "Online" /\ Len(buslog) = 11

\* C16: over all pairs of 2-bit comparator readings: cc1 > cc2 succeeds and
\* configures measure and transmit on CC1 only; cc2 > cc1 succeeds and
\* configures measure and transmit on CC2 only; cc1 = cc2 fails with
\* no-CC-detected and writes no transmit/auto-CRC configuration.
C16_DetectSelectsHigherLine ==
    (pc = "done" /\ tickOf = "PollCC" /\ Len(buslog) >= 5
     /\ buslog[3].ok /\ buslog[5].ok) =>
        LET cc1 == buslog[3].val[1] % 4
            cc2 == buslog[5].val[1] % 4
            n == Len(buslog)
        IN /\ cc1 = cc2 =>
                /\ failure = "NoCcDetected" /\ n = 5
                /\ \A i \in 1..n : buslog[i].reg # "Switches1"
           /\ cc1 # cc2 =>
                /\ failure # "NoCcDetected" /\ n >= 6
                /\ (\A i \in 1..n : buslog[i].ok) => (failure = "none" /\ n = 11)
                /\ buslog[6].op = "write" /\ buslog[6].reg = "Switches0"
                /\ buslog[6].val = <<IF cc1 > cc2 THEN 7 ELSE 11>>
                /\ n >= 8 =>
                      /\ buslog[8].op = "write" /\ buslog[8].reg = "Switches1"
                      /\ buslog[8].val = <<IF cc1 > cc2 THEN 5 ELSE 6>>

\* Readings (2, 1): CC1 has been selected
C16_SelectedCc1 ==
    /\ pc = "done" /\ tickOf = "PollCC" /\ Len(buslog) = 11
    /\ buslog[3].val = <<2>> /\ buslog[5].val = <<1>>
    /\ buslog[8].val = <<5>>

\* C17: on successful CC detection the RX-flush write of detect_cc_line
\* follows its Switches1 (tx line + auto-CRC) write.
C17_FlushFollowsSwitches1 ==
    (pc = "done" /\ tickOf = "PollCC" /\ Len(buslog) >= 8 /\ buslog[8].ok) =>
        \E i \in 1..8, j \in 1..8 :
            /\ i < j
            /\ buslog[i].reg = "Switches1"
            /\ buslog[j].reg = "Control1"

\* C17 (amended): on successful CC detection detect_cc_line writes
\* Switches0 (measure on the winning line), then the RX flush (Control1),
\* then Switches1 (tx line + auto-CRC) as its last write.
C17_FlushPrecedesSwitches1 ==
    (pc = "done" /\ tickOf = "PollCC" /\ Len(buslog) >= 8 /\ buslog[8].ok) =>
        /\ buslog[6].reg = "Switches0"
        /\ <<buslog[7].op, buslog[7].reg, buslog[7].val>> = <<"write", "Control1", <<4>>>>
        /\ <<buslog[8].op, buslog[8].reg>> = <<"write", "Switches1">>
        /\ \A i \in 1..6 : buslog[i].reg \notin {"Control1", "Switches1"}

\* CC detection has succeeded, the following reset has not started well
C17_DetectSucceeded ==
    /\ pc = "done" /\ tickOf = "PollCC" /\ Len(buslog) = 9
    /\ buslog[8].ok /\ ~buslog[9].ok /\ state = "PollCC"

\* C25: a status poll that shows message-sent, retry-exhausted or
\* over-temperature (interrupt bit or status bit) changes neither the offer
\* list, the offer count nor the message-ID counter, issues no bus write,
\* and moves the protocol state only as the VBUS-ok bit of the same
\* snapshot dictates.
C25_LogOnlyConditions ==
    [][(/\ pc = "poll" /\ buslog'[1].ok
        /\ \/ (status'[3] \div 4) % 2 = 1
           \/ (status'[3] \div 16) % 2 = 1
           \/ (status'[3] \div 128) % 2 = 1
           \/ (status'[6] \div 2) % 2 = 1)
       => /\ pdos' = pdos /\ num_pdos' = num_pdos /\ message_id' = message_id
          /\ \A i \in 1..Len(buslog') : buslog'[i].op = "read"
          /\ state' = IF status'[4] % 2 = 1 THEN state
                      ELSE IF ret = "wfv_check" /\ status'[5] \div 128 = 1
                      THEN "PollCC"
                      ELSE IF ret = "online" /\ status'[5] \div 128 = 0
                      THEN "Reset"
                      ELSE state]_vars

\* An established session has seen retry-exhausted and over-temperature and
\* is still Online with its offers
C25_OverTempSeenOnline ==
    /\ pc = "done" /\ result = "Ok" /\ state = "Online" /\ tickOf = "Online"
    /\ status = <<0, 0, 144, 0, 128, 0, 0>>
    /\ num_pdos = 3 /\ message_id = 1

\* C27: after the identity check, bring-up writes Power with all four
\* rails enabled, Mask1, MaskA and MaskB zero, Control0 with host current
\* 3, Control3 with auto-retry on and retry count 3, Control2 zero and
\* Control1 with RX flush, in this order; a failing write is the last one
\* issued.
C27_BringUpWriteOrder ==
    (pc = "done" /\ tickOf = "Reset" /\ buslog # <<>> /\ buslog[1].reg = "Power") =>
        LET regs == <<"Power", "Mask1", "MaskA", "MaskB", "Control0", "Control3",
                      "Control2", "Control1">>
            vals == <<1 + 2 + 4 + 8, 0, 0, 0, 3 * 4, 1 + 3 * 2, 0, 4>>
        IN /\ Len(buslog) <= 8
           /\ \A i \in 1..Len(buslog) :
                 /\ buslog[i].op = "write"
                 /\ buslog[i].reg = regs[i]
                 /\ buslog[i].val = <<vals[i]>>
                 /\ i < Len(buslog) => buslog[i].ok
           /\ Len(buslog) < 8 => ~buslog[Len(buslog)].ok

\* The Control0 write failed: nothing was written after it
C27_AbortedAtControl0 ==
    /\ pc = "done" /\ tickOf = "Reset"
    /\ Len(buslog) = 5 /\ buslog[5].reg = "Control0" /\ ~buslog[5].ok

\* The header bytes of the Request built by the last step
BuiltHeader(t) == t.msg.buffer[1] + 256 * t.msg.buffer[2]

\* A header of a data message of type SourceCapabilities
IsCapsHeader(h) == h % 32 = 1 /\ (h \div 4096) % 8 > 0

\* C28: a Request header has message type Request, object count 1, the
\* extended, data-role and power-role bits clear, and the message ID the
\* counter held when the step began; the counter advances by one (mod 8)
\* in exactly the steps that handle a capabilities message.
C28_RequestHeaderFields ==
    /\ [][tx'.built =>
             /\ BuiltHeader(tx') % 32 = 2
             /\ (BuiltHeader(tx') \div 4096) % 8 = 1
             /\ BuiltHeader(tx') \div 32768 = 0
             /\ (BuiltHeader(tx') \div 32) % 2 = 0
             /\ (BuiltHeader(tx') \div 256) % 2 = 0
             /\ (BuiltHeader(tx') \div 512) % 8 = message_id]_vars
    /\ [][IF Len(rxmsg') = 1 /\ IsCapsHeader(rxmsg'[1].header)
          THEN message_id' = (message_id + 1) % 8 /\ tx'.built
          ELSE message_id' = message_id /\ ~tx'.built]_vars

\* The Request with message ID 7 went out and the counter wrapped to 0
C28_CounterWrapped ==
    /\ tx.built /\ Transmitted(tx)
    /\ (BuiltHeader(tx) \div 512) % 8 = 7 /\ message_id = 0

----------------------------------------------------------------------------
(* Properties of the offer selection (SpecSelect)                          *)

\* The Request object of a built message: the 4 bytes after the header
RequestObject(t) ==
    FromLeBytes(<<t.msg.buffer[3], t.msg.buffer[4], t.msg.buffer[5],
                  t.msg.buffer[6]>>)

\* The 0-based index of the offer a built Request references
ReferencedIndex(t) == Req_object_position(RequestObject(t)) - 1

\* C3: the offer a Request references by object position never has a
\* voltage above 18000 mV, for every list of 1 to 7 offers.
C3_ReferencedOfferWithinLimit ==
    (pc = "selected" /\ tx.built) =>
        voltage(pdos[ReferencedIndex(tx)]) <= 18000

\* Offers of the received list with voltage <= 18000 mV and non-zero power
\* (voltage_mV * current_mA / 1000)
Candidates ==
    {k \in 0..(num_pdos - 1) :
        /\ Pdo_raw_voltage(pdos[k]) * 50 <= 18000
        /\ (Pdo_raw_voltage(pdos[k]) * 50 * Pdo_raw_max_current(pdos[k]) * 10)
               \div 1000 > 0}

PowerOf(k) ==
    (Pdo_raw_voltage(pdos[k]) * 50 * Pdo_raw_max_current(pdos[k]) * 10) \div 1000

\* C4: for every list with at least one offer of voltage <= 18000 mV and
\* non-zero power, the selected offer has maximum power among the offers
\* with voltage <= 18000 mV and is the lowest-indexed of those with that
\* power; for {5V/3A, 9V/2A, 20V/1A} the powers are 15000, 18000, 20000 mW
\* and position 2 is selected.
C4_SelectsMaxPowerLowestIndex ==
    (pc = "selected" /\ tx.built) =>
        /\ Candidates # {} =>
              /\ ReferencedIndex(tx) \in Candidates
              /\ \A k \in Candidates :
                    /\ PowerOf(k) <= PowerOf(ReferencedIndex(tx))
                    /\ PowerOf(k) = PowerOf(ReferencedIndex(tx))
                          => ReferencedIndex(tx) <= k
        /\ payload = EncodeOffers(<<Offer5V3A, Offer9V2A, Offer20V1A>>) =>
              /\ [k \in 0..2 |-> power(pdos[k])] = [k \in 0..2 |->
                     IF k = 0 THEN 15000 ELSE IF k = 1 THEN 18000 ELSE 20000]
              /\ Req_object_position(RequestObject(tx)) = 2

\* The list {5V/3A, 9V/2A, 20V/1A} has been handled and answered
C4_ExampleSelected ==
    /\ pc = "selected"
    /\ payload = EncodeOffers(<<Offer5V3A, Offer9V2A, Offer20V1A>>)
    /\ Req_object_position(RequestObject(tx)) = 2
    /\ Transmitted(tx)

\* C18: the Request object built for the offer selected at 0-based index
\* i has raw minimum-operating-current and raw operating-current equal to
\* the offer's raw 10-bit maximum current, the no-USB-suspend flag set,
\* object position i + 1 and every other bit clear (SpecRequest).
C18_RequestObjectFields ==
    (pc = "selected" /\ tx.built) =>
        LET i == SelectPdo(pdos, num_pdos).selected_pdo
            c == pdos[i] % 1024
            req == RequestObject(tx)
        IN /\ req % 1024 = c
           /\ (req \div 1024) % 1024 = c
           /\ (req \div 16777216) % 2 = 1
           /\ req \div 268435456 = i + 1
           /\ req = c + c * 1024 + 16777216 + (i + 1) * 268435456

\* The offer at index 6 with raw current 1023 has been requested
C18_LastIndexFullCurrent ==
    /\ pc = "selected" /\ num_pdos = 7
    /\ pdos[6] % 1024 = 1023
    /\ RequestObject(tx) = 1023 + 1023 * 1024 + 16777216 + 7 * 268435456

\* C19: after a capabilities message with n objects (1 <= n <= 7) is
\* handled the offer count is n, offers 0..n-1 are the little-endian
\* decodings of payload bytes 4i..4i+3, and the Request references one of
\* these n offers, never one left over from an earlier, longer message.
C19_OffersReplacedAndSelectedFromNew ==
    (pc = "selected" /\ tx.built) =>
        /\ num_pdos = Len(payload) \div 4
        /\ num_pdos \in 1..7
        /\ \A k \in 0..(num_pdos - 1) :
              pdos[k] = payload[4 * k + 1] + payload[4 * k + 2] * 256
                        + payload[4 * k + 3] * 65536
                        + payload[4 * k + 4] * 16777216
        /\ Req_object_position(RequestObject(tx)) \in 1..num_pdos

\* A one-offer list (20 V) was handled while a 9 V offer of the earlier
\* list is still stored behind it
C19_LeftoverNotSelected ==
    /\ pc = "selected" /\ num_pdos = 1
    /\ pdos[0] = Offer20V1A /\ pdos[1] = Offer9V2A
    /\ Req_object_position(RequestObject(tx)) = 1

----------------------------------------------------------------------------
(* Properties of the bus lock (SpecBus)                                    *)

\* C6: at most one task is inside a bus transaction at any time, and every
\* transaction on the shared bus is issued by the task holding the mutex.
C6_TransactionsUnderLock ==
    /\ ~unlocked
    /\ \A t \in Tasks : tpc[t] = "txn" => holder = t
    /\ Cardinality({t \in Tasks : tpc[t] = "txn"}) <= 1

\* A debug handler is in a transaction while the engine and the charger
\* monitor wait for the lock
C6_ContendedTransaction ==
    /\ tpc["web1"] = "txn"
    /\ tpc["pd"] = "lock"
    /\ tpc["bq"] = "lock"
    /\ tpc["web2"] = "lock"

\* C7: no task holding the bus mutex awaits a timer, an interrupt or
\* network I/O; this holds for every holder, the debug handlers included.
C7_NoForeignAwaitUnderLock ==
    \A t \in Tasks : tpc[t] \in {"await", "respond"} => holder # t

\* C8: every acquisition of the bus lock encloses exactly one bus
\* transaction before the lock is released, message transmission included.
C8_OneTransactionPerAcquisition ==
    lastAcq.task # "none" => lastAcq.txns = 1

\* C8 (amended): every acquisition by a helper other than send encloses
\* exactly one bus transaction; send acquires the lock once and issues its
\* writes under it, all three when none fails and up to and including the
\* first failing one otherwise.
C8_OneTransactionExceptSend ==
    /\ lastAcq.task # "none" =>
          IF lastAcq.op = "send"
          THEN /\ lastAcq.txns \in 1..3
               /\ lastAcq.ok => lastAcq.txns = 3
          ELSE lastAcq.txns = 1
    /\ holder # "none" =>
          txns < (IF top[holder] = "send" THEN 3 ELSE 1)
          \/ tpc[holder] = "respond"

\* A transmission has returned Ok after three writes under one guard
C8_SendReleasedAfterThree ==
    /\ lastAcq.task = "pd"
    /\ lastAcq.op = "send"
    /\ lastAcq.txns = 3
    /\ lastAcq.ok

\* C9: when a bus helper returns, with success or with a bus error (a
\* failure of the first or second write of send included), the calling task
\* no longer holds the bus lock.
C9_ReturnReleasesLock ==
    /\ \A t \in Tasks : tpc[t] \in {"idle", "await"} => holder # t
    /\ lastAcq.task # "none" => holder = "none"

\* send has returned a bus error from its second write
C9_SendFailedAtSecondWrite ==
    /\ lastAcq.task = "pd"
    /\ lastAcq.op = "send"
    /\ lastAcq.txns = 2
    /\ ~lastAcq.ok
    /\ tpc["pd"] = "idle"

----------------------------------------------------------------------------
(* Properties of the transmit buffer (SpecBuffer)                          *)

\* C20: appending data objects to a fresh buffer succeeds for the first 7
\* objects and fails with the index error for any further one; a failed
\* append leaves length and contents unchanged; the length is always
\* 3 + 4k with 0 <= k <= 7.
C20_BufferCapacity ==
    /\ [](\E k \in 0..7 : tx.msg.len = 3 + 4 * k)
    /\ [][(pc' = "buffer" /\ result' \in {"Ok", "Err"}) =>
             IF tx.msg.len <= 3 + 4 * 6
             THEN /\ result' = "Ok"
                  /\ tx'.msg.len = tx.msg.len + 4
                  /\ \A j \in 0..30 :
                        (j < tx.msg.len \/ j >= tx.msg.len + 4)
                            => tx'.msg.buffer[j] = tx.msg.buffer[j]
             ELSE /\ result' = "Err" /\ failure' = "Index"
                  /\ tx'.msg = tx.msg]_vars

\* An eighth append has been refused
C20_EighthAppendRefused ==
    pc = "buffer" /\ result = "Err" /\ failure = "Index" /\ tx.msg.len = 31

----------------------------------------------------------------------------
(* Properties of the receive framing (SpecFraming)                         *)

\* The first k operations of log l were issued and none returned an error
FirstOk(l, k) == Len(l) >= k /\ \A i \in 1..k : l[i].ok

\* Operation i of log l is a FIFO read of len bytes
IsFifoRead(l, i, len) ==
    l[i].op = "read" /\ l[i].reg = "Fifos" /\ l[i].len = len

\* C21: in a pass whose bus reads succeed, a non-SOP token is consumed as
\* one byte and nothing is dispatched; at an SOP token exactly one message
\* is dispatched, its header the next 2 bytes (little-endian), its payload
\* the 4n bytes after them (n the header's object count, at most 28 bytes),
\* read with no payload read when n = 0, and the 4 CRC bytes are consumed
\* without being dispatched.
C21_FramingPass ==
    [][(pc = "drain" /\ rxfifo # <<>>) =>
         LET hdr == rxfifo[2] + 256 * rxfifo[3]
             n == (hdr \div 4096) % 8
         IN IF (rxfifo[1] \div 32) % 8 # 7
            THEN FirstOk(buslog', 2) =>
                    /\ Len(buslog') = 2
                    /\ IsFifoRead(buslog', 2, 1)
                    /\ rxfifo' = Tail(rxfifo)
                    /\ rxmsg' = <<>>
            ELSE FirstOk(buslog', IF n = 0 THEN 4 ELSE 5) =>
                    /\ IsFifoRead(buslog', 2, 1)
                    /\ IsFifoRead(buslog', 3, 2)
                    /\ IF n = 0 THEN IsFifoRead(buslog', 4, 4)
                       ELSE IsFifoRead(buslog', 4, 4 * n)
                            /\ IsFifoRead(buslog', 5, 4)
                    /\ \A i \in 1..Len(buslog') :
                          i > (IF n = 0 THEN 4 ELSE 5) => buslog'[i].op = "write"
                    /\ Len(rxmsg') = 1
                    /\ rxmsg'[1].header = hdr
                    /\ rxmsg'[1].payload = SubSeq(rxfifo, 4, 3 + 4 * n)
                    /\ Len(rxmsg'[1].payload) <= 28
                    /\ rxfifo' = SubSeq(rxfifo, 8 + 4 * n, Len(rxfifo))]_vars

\* A seven-object message was dispatched whole and the next unit, which
\* starts with a non-SOP token, is still queued
C21_SevenObjectsDispatched ==
    /\ pc = "drain" /\ Len(rxmsg) = 1
    /\ rxmsg[1].header = PeerHeader(DataMessageType_SourceCapabilities, 7)
    /\ rxmsg[1].payload = EncodeOffers(FramedOffers(7))
    /\ rxfifo # <<>> /\ rxfifo[1] = 192

\* C29: in every reachable state the message-ID counter is in 0..7 and
\* the offer count is in 0..7.
C29_CountersInRange ==
    message_id \in 0..7 /\ num_pdos \in 0..7

\* Seven offers are stored, the counter has wrapped and a bus error has
\* ended the drain
C29_SevenOffersIdWrapped ==
    num_pdos = 7 /\ message_id = 0 /\ lastTxId = 7 /\ faults = 1

\* Operation i of log l is a successful Status1 read whose RX-empty bit
\* (bit 5) is b
IsStatus1Read(l, i, b) ==
    /\ l[i].op = "read" /\ l[i].reg = "Status1" /\ l[i].ok
    /\ (l[i].val[1] \div 32) % 2 = b

\* C30: the drain entered on good-CRC-sent goes on as long as Status1 shows
\* a non-empty FIFO and returns Ok only on a Status1 read that shows
\* RX-empty; a pass pulls one token, and the message it decodes is
\* dispatched in the same pass, the Request's writes included, before the
\* next pass pulls a token; with a finite FIFO and no new data the drain
\* ends.
C30_DrainUntilEmpty ==
    /\ [][(pc = "drain" /\ pc' # "drain" /\ result' # "Err") =>
             /\ Len(buslog') = 1 /\ IsStatus1Read(buslog', 1, 1)
             /\ rxfifo = <<>>]_vars
    /\ [][(pc = "drain" /\ pc' = "drain") =>
             /\ IsStatus1Read(buslog', 1, 0)
             /\ rxfifo # <<>>
             /\ Len(rxfifo') < Len(rxfifo)
             /\ \A i \in 3..Len(buslog') : ~IsFifoRead(buslog', i, 1)
             /\ (Len(rxmsg') = 1 /\ IsCapsHeader(rxmsg'[1].header)) =>
                    /\ Transmitted(tx')
                    /\ \A i \in (Len(buslog') - 2)..Len(buslog') :
                          buslog'[i].op = "write" /\ buslog'[i].reg = "Fifos"]_vars
    /\ ((pc = "drain") ~> (pc = "done"))

\* Two capabilities messages were answered and the drain returned on
\* RX-empty
C30_DrainedTwoMessages ==
    /\ pc = "done" /\ result = "Ok" /\ rxfifo = <<>>
    /\ Len(buslog) = 1 /\ buslog[1].reg = "Status1" /\ buslog[1].val = <<32>>
    /\ message_id = 2 /\ num_pdos = 7

\* C33: a received message that is not a data message (object count above
\* 0) of type SourceCapabilities is dropped: the pass that read it issues
\* bus reads only, builds and transmits nothing, and leaves the offer list,
\* the offer count, the message-ID counter and the protocol state as they
\* were. A SourceCapabilities data message is answered: the pass builds a
\* Request and writes it to the bus.
C33_OnlyCapabilitiesAnswered ==
    [][rxmsg' # <<>> =>
          LET h == rxmsg'[1].header
              caps == (h \div 4096) % 8 > 0 /\ h % 32 = 1
          IN IF caps
             THEN /\ tx'.built
                  /\ \E i \in DOMAIN buslog' : buslog'[i].op = "write"
             ELSE /\ \A i \in DOMAIN buslog' : buslog'[i].op = "read"
                  /\ tx' = NoTx
                  /\ UNCHANGED <<pdos, num_pdos, message_id, state, lastTxId>>
                  /\ pc' = "drain"]_vars

\* A GoodCrc control message, whose type number is that of
\* SourceCapabilities, was dropped by a session that has sent Requests
C33_GoodCrcDropped ==
    /\ rxmsg # <<>> /\ rxmsg[1].header = PeerHeader(1, 0)
    /\ message_id = 7 /\ num_pdos = 1 /\ tx = NoTx

----------------------------------------------------------------------------
(* Properties of the bit-field types (SpecCodec)                           *)

\* C22 as stated: the token kind of a FIFO byte is the variant numbered by
\* the byte's low 3 bits.
C22_TokenFromLowBits ==
    codec.type = "RxToken" => codec.fields[1] = codec.raw % 8

\* C22, amended: the token kind of a FIFO byte is the variant numbered by
\* bits 5..7 of the byte ((byte div 32) mod 8), and every byte 0..255 maps
\* to exactly one of the eight kinds.
C22_TokenFromHighBits ==
    codec.type = "RxToken" =>
        /\ codec.fields[1] = (codec.raw \div 32) % 8
        /\ codec.fields[1] \in 0..7

\* The byte 0xE0 has been decoded as Sop
C22_SopDecoded ==
    codec.type = "RxToken" /\ codec.raw = 224 /\ codec.fields[1] = 7

\* C24: for Header, FixedSupplyPdo and FixedVariableSupplyRequest, a raw
\* word decoded into its fields and encoded again is the same word; a value
\* built from field assignments within the declared widths reads back the
\* assigned values; and one field write changes no other field.
C24_RoundTrip ==
    /\ (codec.type \in CodecTypes /\ codec.op = "from") => codec.raw2 = codec.raw
    /\ (codec.type \in CodecTypes /\ codec.op = "build") => codec.fields2 = codec.fields
    /\ (codec.type \in CodecTypes /\ codec.op = "with") => codec.fields2 = codec.fields

\* A Request word holding other fields had its operating current rewritten
C24_FieldRewritten ==
    /\ codec.type = "FixedVariableSupplyRequest" /\ codec.op = "with"
    /\ codec.raw # 0 /\ codec.raw2 # codec.raw
    /\ codec.fields2[2] = 1 /\ codec.fields2[1] = 1023 /\ codec.fields2[10] = 7

\* C23: send issues three writes to the FIFO register, in this order:
\* SOP1, SOP1, SOP1, SOP2 and the pack token plus the number of header and
\* payload bytes (2 + 4k, at most 30); the 2 header bytes and the 4k
\* payload bytes; CRC, EOP, TX-off, TX-on. After a failing write no later
\* write is issued and the error is returned.
C23_SendIssuesThreeWrites ==
    pc = "sent" =>
        LET k == (tx.msg.len - 3) \div 4
            expected == <<<<18, 18, 18, 19, 128 + 2 + 4 * k>>,
                          [i \in 1..(2 + 4 * k) |-> tx.msg.buffer[i]],
                          <<255, 20, 254, 161>>>>
        IN /\ 2 + 4 * k <= 30
           /\ Len(buslog) \in 1..3
           /\ \A i \in 1..Len(buslog) :
                 /\ buslog[i].op = "write" /\ buslog[i].reg = "Fifos"
                 /\ buslog[i].val = expected[i]
                 /\ i < Len(buslog) => buslog[i].ok
           /\ result = "Ok" <=> (Len(buslog) = 3 /\ buslog[3].ok)
           /\ result = "Err" <=> ~buslog[Len(buslog)].ok
           /\ result \in {"Ok", "Err"}

\* A message with seven data objects was sent whole
C23_FullMessageSent ==
    /\ pc = "sent" /\ result = "Ok" /\ tx.msg.len = 31
    /\ Len(buslog) = 3 /\ buslog[1].val[5] = 158

----------------------------------------------------------------------------
(* Properties of the joined tasks (SpecSession)                            *)

\* C26: a step of the charger monitor, failing or not, leaves the PD
\* session (protocol state, snapshot, offers, offer count, message ID) and
\* the engine's position unchanged; after a failed init or tick the monitor
\* is at the start of a tick and can run it; the engine is always at one
\* of its suspension points and, when a tick has returned, can start the
\* next one.
C26_ChargerNeverAffectsEngine ==
    /\ [][(bqstep' # bqstep \/ lastAcq' # lastAcq) =>
             UNCHANGED <<state, status, pdos, num_pdos, message_id, pc, ret,
                         result, failure, rxfifo, tx>>]_vars
    /\ []((lastAcq.task = "bq" /\ ~lastAcq.ok) => bqstep = "adc")
    /\ [](bqstep \in {"init", "adc", "vsys", "vbus"} /\ ENABLED BqStep)
    /\ [](pc \in {"tick", "setup_id", "setup_cfg", "poll", "wait_int", "drain",
                 "done"})
    /\ [](pc = "done" => ENABLED PdLoop)

\* The monitor's VsysAdc read failed while the PD session was established
C26_TickFailedWhileOnline ==
    /\ lastAcq = [task |-> "bq", op |-> "i2c_read_u16", txns |-> 1, ok |-> FALSE]
    /\ bqstep = "adc"
    /\ state = "Online" /\ num_pdos = 3 /\ message_id = 1 /\ pc = "wait_int"

----------------------------------------------------------------------------
(* Properties of the status poll (Spec)                                    *)

\* C31: a status poll is one bus transaction, a read of 7 registers
\* starting at Status0A; when it succeeds the stored snapshot is the burst
\* that was read, when it fails the snapshot is kept and the tick returns.
\* A wake-up on the interrupt line changes neither the snapshot nor the
\* protocol state and is followed by a status poll; the protocol state of a
\* WaitForVbus or Online tick changes only in the step of a successful poll
\* of that tick or while the messages that poll announced are drained.
C31_PollPrecedesVbusCheck ==
    /\ [][pc = "poll" =>
             /\ Len(buslog') = 1
             /\ <<buslog'[1].op, buslog'[1].reg, buslog'[1].len>>
                    = <<"read", "Status0A", 7>>
             /\ IF buslog'[1].ok
                THEN /\ polled' /\ Len(status') = 7
                     /\ status' \in Snapshots
                ELSE /\ status' = status /\ state' = state
                     /\ pc' = "done" /\ result' = "Err"]_vars
    /\ [][status' # status => (pc = "poll" /\ buslog'[1].ok)]_vars
    /\ [][pc = "wait_int" =>
             /\ pc' = "poll" /\ state' = state /\ status' = status
             /\ result' = "run" /\ buslog' = <<>>]_vars
    /\ [][(state' # state /\ tickOf' \in {"WaitForVbus", "Online"}) =>
             /\ pc \in {"poll", "drain"}
             /\ polled'
             /\ pc = "poll" => buslog'[1].ok]_vars

\* An Online tick was woken, polled a snapshot with VBUS-ok set and
\* returned with the session still established
C31_WokenPolledStillOnline ==
    /\ pc = "done" /\ tickOf = "Online" /\ polled /\ result = "Ok"
    /\ state = "Online" /\ vbusok(status)
    /\ Len(buslog) = 1 /\ buslog[1].reg = "Status0A"

----------------------------------------------------------------------------
(* Properties of the derived offer values (SpecPower)                      *)

\* C32: for every 10-bit raw voltage and raw current, voltage() is the raw
\* voltage times 50, max_current() the raw current times 10, power() the
\* integer quotient of their product by 1000, and the u32 product loses no
\* bits: its two halves hold the exact product.
C32_PowerExactNoWrap ==
    codec.op = "power" =>
        LET raw_voltage == (codec.raw \div 1024) % 1024
            raw_current == codec.raw % 1024
            product == (raw_voltage * 50) * (raw_current * 10)
        IN /\ codec.fields[1] = raw_voltage * 50
           /\ codec.fields[2] = raw_current * 10
           /\ codec.fields[3] = product \div 1000
           /\ codec.fields2[3] = 0
           /\ codec.fields2[1] * 65536 + codec.fields2[2] = product

\* The largest offer: 51.15 V at 10.23 A is 523264 mW
C32_LargestOffer ==
    /\ codec.op = "power" /\ codec.raw = 1023 * 1024 + 1023
    /\ codec.fields = <<51150, 10230, 523264>>

\* C34: the receive FIFO is read, a received message is decoded and a
\* Request is built or written to the bus only while the protocol state is
\* Online.
C34_DrainOnlyWhileOnline ==
    (\/ pc = "drain"
     \/ rxmsg # <<>>
     \/ tx.built
     \/ \E i \in DOMAIN buslog : buslog[i].reg \in {"Fifos", "Status1"})
        => state = "Online"

\* C35: the step that takes the state from Online to Reset leaves the
\* message-ID counter, the offer list and the offer count as they were, and
\* so does every step of a Reset tick (bring-up) and of a PollCC tick and the
\* dispatch of the next tick: the three change only in a step that
\* dispatches a capabilities message, and the Request built then carries
\* the counter's value, whatever reconnects lie between two Requests.
C35_SessionKeptAcrossReset ==
    /\ [][(state = "Online" /\ state' = "Reset") =>
             UNCHANGED <<message_id, pdos, num_pdos>>]_vars
    /\ [][(tickOf' \in {"Reset", "PollCC", "none"}) =>
             UNCHANGED <<message_id, pdos, num_pdos>>]_vars
    /\ [][(message_id' # message_id \/ pdos' # pdos \/ num_pdos' # num_pdos) =>
             (pc = "drain" /\ tx'.built /\ rxmsg' # <<>>)]_vars
    /\ [][tx'.built => Header_message_id(BuiltHeader(tx')) = message_id]_vars

\* After a session that sent Request 0 for three offers and lost VBUS,
\* bring-up has succeeded again with the counter and the offers kept
C35_BroughtUpAgainWithCounter ==
    /\ pc = "done" /\ tickOf = "Reset" /\ state = "WaitForVbus"
    /\ message_id = 1 /\ num_pdos = 3 /\ pdos[0] = Offer5V3A

----------------------------------------------------------------------------
(* Properties of the offer list's indices (SpecSelect)                     *)

\* C36: for every capabilities payload of 1 to 7 objects, the object
\* position in the Request is at least 1 and at most the offer count, the
\* offer count is at most 7, the position fits the 4-bit field unmasked,
\* and the indices the handler uses on the 7-entry list (0..count-1 when
\* it stores and scans the offers, position-1 when it reads the selected
\* offer's current) are all below 7.
C36_PositionAndIndicesInRange ==
    (pc = "selected" /\ tx.built) =>
        LET position == (RequestObject(tx) \div 268435456) % 16
            used == 0..(num_pdos - 1) \cup {position - 1}
        IN /\ Len(payload) \div 4 \in 1..7
           /\ num_pdos \in 1..7
           /\ position >= 1 /\ position <= num_pdos
           /\ position = Req_object_position(RequestObject(tx))
           /\ \A k \in used : k >= 0 /\ k < 7 /\ k \in DOMAIN pdos
           /\ RequestObject(tx) % 1024 = pdos[position - 1] % 1024

\* The last of seven offers was selected: position 7
C36_SeventhSelected ==
    /\ pc = "selected" /\ tx.built /\ num_pdos = 7
    /\ Req_object_position(RequestObject(tx)) = 7
    /\ pdos[6] = Offer9V2A /\ pdos[0] = Offer5V0A

----------------------------------------------------------------------------
(* Properties of the bus lock's users (SpecBus)                            *)

\* C37: a task suspends in lock().await only from outside a helper, so
\* never while it owns the guard; the owner of the guard is always inside
\* its helper, about to issue a transaction, issuing one or answering its
\* client, and never waiting for the lock; hence whenever tasks wait for
\* the lock, either the lock is free or its owner is a task that is not
\* waiting for it: not all tasks are blocked on the lock.
C37_NoLockRequestedWhileHeld ==
    /\ [](\A t \in Tasks : tpc[t] = "lock" => holder # t)
    /\ [][\A t \in Tasks :
             (tpc'[t] = "lock" /\ tpc[t] # "lock") =>
                 (tpc[t] = "idle" /\ holder # t)]_vars
    /\ [](holder # "none" =>
             /\ holder \in Tasks
             /\ tpc[holder] \in {"held", "txn", "respond"})
    /\ [](~(holder # "none" /\ \A t \in Tasks : tpc[t] = "lock"))
    /\ []((\E t \in Tasks : tpc[t] = "lock") =>
             \/ holder = "none"
             \/ tpc[holder] \in {"held", "txn", "respond"})

\* The engine is inside send with its third write on the bus while the
\* charger monitor and both debug handlers wait for the lock
C37_AllOthersWaiting ==
    /\ holder = "pd" /\ top["pd"] = "send" /\ tpc["pd"] = "txn" /\ txns = 2
    /\ \A t \in Tasks \ {"pd"} : tpc[t] = "lock"

\* C38: from the first write of a message transmission to its return the
\* engine owns the bus guard and no other task is inside a bus helper: no
\* transaction of the charger monitor or of a debug handler starts while
\* send has writes left; a completed write of send is followed by the next
\* write under the same guard or by send's return, and a send that returns
\* Ok has issued its three writes under one acquisition.
C38_SendWritesContiguous ==
    /\ []((top["pd"] = "send" /\ tpc["pd"] \in {"held", "txn"}) =>
             /\ holder = "pd"
             /\ \A t \in Tasks \ {"pd"} : tpc[t] \in {"idle", "lock"})
    /\ [][\A t \in Tasks \ {"pd"} :
             (tpc'[t] = "txn" /\ tpc[t] # "txn") =>
                 ~(top["pd"] = "send" /\ tpc["pd"] \in {"held", "txn"})]_vars
    /\ [][(top["pd"] = "send" /\ tpc["pd"] = "txn" /\ tpc'["pd"] # "txn") =>
             IF tpc'["pd"] = "held"
             THEN holder' = "pd" /\ txns' = txns + 1 /\ txns' < 3
             ELSE /\ tpc'["pd"] = "idle" /\ holder' = "none"
                  /\ lastAcq'.task = "pd" /\ lastAcq'.op = "send"
                  /\ lastAcq'.ok => lastAcq'.txns = 3]_vars

\* The header+payload write of a message is on the bus while the charger
\* monitor and a debug handler wait for the lock
C38_SecondWriteWhileOthersWait ==
    /\ holder = "pd" /\ top["pd"] = "send" /\ tpc["pd"] = "txn" /\ txns = 1
    /\ tpc["bq"] = "lock" /\ tpc["web1"] = "lock" /\ tpc["web2"] = "idle"

----------------------------------------------------------------------------
(* Properties of the transmit FIFO (Spec)                                  *)

\* C39: a transmission of an established session starts on an empty
\* transmit FIFO: whenever an Online tick writes the SOP sequence of a
\* message, the writes of an earlier transmission that failed after its
\* first or second write have been flushed, so that the FIFO never holds
\* part of a frame followed by another frame.
C39_PartialFrameFlushedBeforeNextSend ==
    [][(/\ tickOf' = "Online"
        /\ \E i \in DOMAIN buslog' :
              buslog'[i].op = "write" /\ buslog'[i].reg = "Fifos") =>
          txfifo = <<>>]_vars

----------------------------------------------------------------------------
(* Progress of the engine (SpecLive)                                       *)

\* C40: in a well-behaved environment and under fair scheduling the engine,
\* started in Reset, eventually is Online; and whenever an Online tick has
\* polled a snapshot with VBUS-ok clear, the engine eventually is in Reset.
C40_ReachesOnlineAndResets ==
    /\ state = "Reset"
    /\ <>(state = "Online")
    /\ (tickOf = "Online" /\ polled /\ ~vbusok(status)) ~> (state = "Reset")

\* The engine is Online for the second time: a PollCC tick has succeeded in
\* a session that had already sent a Request
C40_OnlineAgain ==
    /\ pc = "done" /\ tickOf = "PollCC" /\ state = "Online"
    /\ message_id = 1 /\ num_pdos = 3

====
